---------------------------- MODULE Spec2Model ----------------------------
(***************************************************************************)
(* Model of the vocabulary drilling engine of bobcat54/vocab_drilling:     *)
(*   - the level scheduler and the session queue (src/src/lib/csv-parser.ts*)
(*     lines 173-358),                                                     *)
(*   - answer judging (src/src/lib/utils.ts),                              *)
(*   - the Zustand store useVocabStore (src/unnamed/part_003 lines         *)
(*     587-1216).                                                          *)
(*                                                                         *)
(* The specifications share the variables:                                 *)
(*   Spec            the store driven through the actions of a drill       *)
(*                   session: startDrillSession, submitAnswer, skipWord,   *)
(*                   completeSession and clearSession, called in any order *)
(*                   with any argument;                                    *)
(*   SpecDays        the same store with muteWord, near answers and days   *)
(*                   that pass, from each history of completed sessions;   *)
(*   SpecStart       startDrillSession on drawn groups of words;           *)
(*   SpecComplete    the store after loadFromSupabase or after importWords *)
(*                   replaced the words under a session;                   *)
(*   SpecLongSession completeSession on sessions with long answer logs;    *)
(*   SpecCard        the drill page: DrillCard, its handlers and timers;   *)
(*   SpecCardFair    SpecCard with timers that fire;                       *)
(*   SpecSync        the store and the rows its writes leave in Supabase;  *)
(*   SpecMastery     one session answered at the head until the queue is   *)
(*                   empty;                                                *)
(*   SpecMute        sessions on words muted before and during them;       *)
(*   SpecUnlock      three groups, sessions and unlockNextGroup calls;     *)
(*   SpecBuild       buildInitialQueue applied to drawn candidate lists;   *)
(*   SpecQueue       processAnswer applied repeatedly to a built queue;    *)
(*   SpecReinsert    processAnswer applied once to a long queue;           *)
(*   SpecReview      calculateNextReviewDate applied to drawn levels;      *)
(*   SpecDue         getDueWords applied to drawn word lists.              *)
(*                                                                         *)
(* An instant is a whole number of ticks, TicksPerDay of them to the day;  *)
(* a date string (appState.lastSessionDate) is a day number.  All dates    *)
(* are read in one time zone without daylight saving.  An answer record    *)
(* keeps wordId, isCorrect and isNearMatch; the typed text and the         *)
(* timestamp it also carries are read by no action.  Writes to Supabase    *)
(* are fire-and-forget and change no store field; SpecSync follows them.   *)
(***************************************************************************)
EXTENDS Integers, Sequences, FiniteSets, TLC

VARIABLES
  words,              \* store.words: word id -> Word record
  groups,             \* store.groups: sequence of WordGroup records
  sessions,           \* store.sessions: sequence of completed DrillSession
  appState,           \* store.appState: dailyStreak, lastSessionDate, sessionGoal
  currentSession,     \* store.currentSession: a DrillSession or NoSession
  sessionQueue,       \* store.sessionQueue: sequence of QueueEntry
  sessionMasteredIds, \* store.sessionMasteredIds: sequence of word ids
  sessionTotalWords,  \* store.sessionTotalWords
  error,              \* store.error
  clock,              \* the instant new Date() returns
  nextSessionId,      \* the next value of crypto.randomUUID() for a session
  strays,             \* submitAnswer calls so far for a word that was not the head
  engine              \* what a specification holds beside the store: the queue
                      \* engine on its own, DrillCard, the rows of Supabase

vars == <<words, groups, sessions, appState, currentSession, sessionQueue,
          sessionMasteredIds, sessionTotalWords, error, clock, nextSessionId,
          strays, engine>>

storeVars == <<words, groups, sessions, appState, currentSession, sessionQueue,
               sessionMasteredIds, sessionTotalWords, error, clock,
               nextSessionId>>

-----------------------------------------------------------------------------
(* Bounds of the model.                                                    *)

\* longest candidate list drawn for buildInitialQueue
MaxCands == 7
\* longest candidate list whose queue is driven through processAnswer
MaxQueue == 4
\* accepted submitAnswer calls in one run of the store
MaxAnswers == 5
\* sessions started in one run of the store
MaxSessions == 1
\* sessions completed in one run of the store
MaxCompletions == 2
\* submitAnswer calls in one run for a word that is not at the head
MaxStrays == 1
\* entries behind the head of the queue SpecReinsert draws
MaxTail == 21
\* words in the list SpecDue draws
MaxDueWords == 3
\* days after StartDay from which SpecReview schedules
MaxFromDays == 5
\* words in the store SpecStart draws
MaxStartWords == 3
\* sessions started in one run of SpecStart
MaxStarts == 2
\* visits to the head of the queue in the session SpecLongSession draws
MaxVisits == 23
\* wrong answers the first head of that session takes to begin with
MaxExtraWrongs == 5
\* instants of one day the model tells apart
TicksPerDay == 2
\* answers logged in one session of SpecDays
MaxDayAnswers == 2
\* days that pass in one run of SpecDays
MaxDays == 1
\* words muted in one run of SpecDays
MaxMuted == 1
\* sessions completed in one run of SpecDays
MaxDayCompletions == 1

-----------------------------------------------------------------------------
(* Sequence helpers.                                                       *)

Min(a, b) == IF a < b THEN a ELSE b
Max(a, b) == IF a > b THEN a ELSE b

\* Array.prototype.slice(0, n) for n >= 0
SliceTo(s, n) == SubSeq(s, 1, Min(n, Len(s)))

\* Array.prototype.splice(pos, 0, e) on a copy: e inserted at 0-based index pos
InsertAt(s, pos, e) == SubSeq(s, 1, pos) \o <<e>> \o SubSeq(s, pos + 1, Len(s))

\* Array.prototype.sort((a, b) => a.level - b.level), which is stable: each
\* element is inserted after the last one whose level is not greater.
RECURSIVE insertByLevel(_, _)
insertByLevel(sorted, x) ==
  IF sorted = <<>> THEN <<x>>
  ELSE IF Head(sorted).level <= x.level
       THEN <<Head(sorted)>> \o insertByLevel(Tail(sorted), x)
       ELSE <<x>> \o sorted

RECURSIVE sortByLevel(_)
sortByLevel(s) ==
  IF s = <<>> THEN <<>>
  ELSE insertByLevel(sortByLevel(SubSeq(s, 1, Len(s) - 1)), s[Len(s)])

RECURSIVE SumSeq(_)
SumSeq(s) == IF s = <<>> THEN 0 ELSE Head(s) + SumSeq(Tail(s))

Range(s) == {s[i] : i \in 1..Len(s)}

-----------------------------------------------------------------------------
(* Level scheduler: csv-parser.ts lines 173-237.                           *)

\* the instant of hour `hour` of day `day`
instant(day, hour) == day * TicksPerDay + hour

\* Date.prototype.setHours(0, 0, 0, 0): the midnight that starts the day of t
setHoursZero(t) == t - (t % TicksPerDay)

\* Date.prototype.toISOString().split('T')[0]: the day of t
dateString(t) == t \div TicksPerDay

\* Date.prototype.setDate(getDate() + n): the same hour n days later
addDays(t, n) == t + n * TicksPerDay

\* the 10 years setFullYear adds for level 8, in days
TenYears == 3652

\* LEVEL_INTERVALS, with null (level 8) as -1
LEVEL_INTERVALS ==
  [l \in 0..8 |-> CASE l = 0 -> 0  [] l = 1 -> 1  [] l = 2 -> 3  [] l = 3 -> 7
                    [] l = 4 -> 14 [] l = 5 -> 30 [] l = 6 -> 60 [] l = 7 -> 120
                    [] OTHER -> -1]

\* calculateNextReviewDate with null passed on to setDate, which adds 0 days
calculateNextReviewDateNullAsZero(level, fromDate) ==
  LET interval == LEVEL_INTERVALS[level]
  IN IF interval = -1 THEN addDays(fromDate, 0) ELSE addDays(fromDate, interval)

calculateNextReviewDate(level, fromDate) ==
  LET interval == LEVEL_INTERVALS[level]
  IN IF interval = -1 THEN addDays(fromDate, TenYears) ELSE addDays(fromDate, interval)

advanceLevel(level) == Min(8, level + 1)

\* dropLevel without its floor
dropLevelUnfloored(level) == level - 2

dropLevel(level) == Max(0, level - 2)

\* isWordDue comparing the two instants as they are, to the hour
isWordDueToTheHour(word, currentDate) == word.nextReviewDate <= currentDate

isWordDue(word, currentDate) ==
  setHoursZero(word.nextReviewDate) <= setHoursZero(currentDate)

getDueWords(ws, currentDate) ==
  sortByLevel(SelectSeq(ws, LAMBDA w : ~w.isMuted /\ isWordDue(w, currentDate)))

-----------------------------------------------------------------------------
(* Session queue: csv-parser.ts lines 251-358.                             *)

QueueEntry(id, streak) == [wordId |-> id, sessionCorrectStreak |-> streak]

\* a throttle that lets one more new word through
ThrottleOfSix == 5 + 1

\* the new-word throttle of buildInitialQueue
NewWordThrottle == 5

\* the streak at which processAnswer removes the entry
MasteryStreak == 4

RECURSIVE buildLoop(_, _, _, _, _, _)
buildLoop(newWords, reviewWords, newIdx, revIdx, consecutiveNew, queue) ==
  IF ~(newIdx < Len(newWords) \/ revIdx < Len(reviewWords)) THEN queue
  ELSE IF consecutiveNew >= NewWordThrottle /\ revIdx < Len(reviewWords)
    THEN buildLoop(newWords, reviewWords, newIdx, revIdx + 1, 0,
                   Append(queue, QueueEntry(reviewWords[revIdx + 1].id, 0)))
  ELSE IF newIdx < Len(newWords) /\ revIdx < Len(reviewWords)
    THEN buildLoop(newWords, reviewWords, newIdx + 1, revIdx, consecutiveNew + 1,
                   Append(queue, QueueEntry(newWords[newIdx + 1].id, 0)))
  ELSE IF newIdx < Len(newWords)
    THEN buildLoop(newWords, reviewWords, newIdx + 1, revIdx, consecutiveNew + 1,
                   Append(queue, QueueEntry(newWords[newIdx + 1].id, 0)))
  ELSE buildLoop(newWords, reviewWords, newIdx, revIdx + 1, 0,
                 Append(queue, QueueEntry(reviewWords[revIdx + 1].id, 0)))

\* buildInitialQueue without the cut at sessionGoal
buildInitialQueueUncapped(ws, sessionGoal) ==
  LET newWords == SelectSeq(ws, LAMBDA w : w.totalAttempts = 0)
      reviewWords == SelectSeq(ws, LAMBDA w : w.totalAttempts > 0)
  IN buildLoop(newWords, reviewWords, 0, 0, 0, <<>>)

buildInitialQueue(ws, sessionGoal) ==
  LET limited == SliceTo(ws, sessionGoal)
      newWords == SelectSeq(limited, LAMBDA w : w.totalAttempts = 0)
      reviewWords == SelectSeq(limited, LAMBDA w : w.totalAttempts > 0)
  IN buildLoop(newWords, reviewWords, 0, 0, 0, <<>>)

\* Math.random() as u/6 for u in RandomUnit; FloorRandom(u, k) is
\* Math.floor(Math.random() * k)
RandomUnit == 0..5
FloorRandom(u, k) == (u * k) \div 6

\* the reinsertion rule with the first correct answer sent one place further
getCorrectReinsertPositionLate(newStreak, queueLength, u) ==
  LET target == IF newStreak = 1 THEN 6 + FloorRandom(u, 2)
                ELSE IF newStreak = 2 THEN 10 + FloorRandom(u, 3)
                ELSE 20
  IN Min(target, queueLength)

getCorrectReinsertPosition(newStreak, queueLength, u) ==
  LET target == IF newStreak = 1 THEN 5 + FloorRandom(u, 2)
                ELSE IF newStreak = 2 THEN 10 + FloorRandom(u, 3)
                ELSE 20
  IN Min(target, queueLength)

\* the reinsertion rule of a wrong answer one place nearer the head
getWrongReinsertPositionNear(queueLength, u) ==
  LET target == 1 + FloorRandom(u, 2)
  IN Min(target, queueLength)

getWrongReinsertPosition(queueLength, u) ==
  LET target == 2 + FloorRandom(u, 2)
  IN Min(target, queueLength)

\* processAnswer reinserting into the queue it was given, the head not popped
processAnswerKeepingHead(queue, isCorrect, u) ==
  IF Len(queue) = 0
  THEN [threw |-> TRUE, newQueue |-> queue, entry |-> QueueEntry(0, 0),
        wasMastered |-> FALSE]
  ELSE
    LET front == Head(queue)
        newStreak == IF isCorrect THEN front.sessionCorrectStreak + 1 ELSE 0
        updatedEntry == [front EXCEPT !.sessionCorrectStreak = newStreak]
        position == IF isCorrect
                    THEN getCorrectReinsertPosition(newStreak, Len(queue), u)
                    ELSE getWrongReinsertPosition(Len(queue), u)
    IN IF newStreak >= 4
       THEN [threw |-> FALSE, newQueue |-> Tail(queue), entry |-> updatedEntry,
             wasMastered |-> TRUE]
       ELSE [threw |-> FALSE, newQueue |-> InsertAt(queue, position, updatedEntry),
             entry |-> updatedEntry, wasMastered |-> FALSE]

\* processAnswer taking an entry out of the queue on its fifth correct answer
\* in a row
processAnswerFiveToMaster(queue, isCorrect, u) ==
  IF Len(queue) = 0
  THEN [threw |-> TRUE, newQueue |-> queue, entry |-> QueueEntry(0, 0),
        wasMastered |-> FALSE]
  ELSE
    LET front == Head(queue)
        rest == Tail(queue)
    IN IF isCorrect
       THEN LET newStreak == front.sessionCorrectStreak + 1
                updatedEntry == [front EXCEPT !.sessionCorrectStreak = newStreak]
            IN IF newStreak >= MasteryStreak + 1
               THEN [threw |-> FALSE, newQueue |-> rest, entry |-> updatedEntry,
                     wasMastered |-> TRUE]
               ELSE [threw |-> FALSE,
                     newQueue |-> InsertAt(rest,
                        getCorrectReinsertPosition(newStreak, Len(rest), u),
                        updatedEntry),
                     entry |-> updatedEntry, wasMastered |-> FALSE]
       ELSE LET updatedEntry == [front EXCEPT !.sessionCorrectStreak = 0]
            IN [threw |-> FALSE,
                newQueue |-> InsertAt(rest,
                   getWrongReinsertPosition(Len(rest), u), updatedEntry),
                entry |-> updatedEntry, wasMastered |-> FALSE]

\* processAnswer; threw = TRUE stands for the Error thrown on an empty queue
\* (no result is returned then).
processAnswer(queue, isCorrect, u) ==
  IF Len(queue) = 0
  THEN [threw |-> TRUE, newQueue |-> queue, entry |-> QueueEntry(0, 0),
        wasMastered |-> FALSE]
  ELSE
    LET front == Head(queue)
        rest == Tail(queue)
    IN IF isCorrect
       THEN LET newStreak == front.sessionCorrectStreak + 1
                updatedEntry == [front EXCEPT !.sessionCorrectStreak = newStreak]
            IN IF newStreak >= MasteryStreak
               THEN [threw |-> FALSE, newQueue |-> rest, entry |-> updatedEntry,
                     wasMastered |-> TRUE]
               ELSE [threw |-> FALSE,
                     newQueue |-> InsertAt(rest,
                        getCorrectReinsertPosition(newStreak, Len(rest), u),
                        updatedEntry),
                     entry |-> updatedEntry, wasMastered |-> FALSE]
       ELSE LET updatedEntry == [front EXCEPT !.sessionCorrectStreak = 0]
            IN [threw |-> FALSE,
                newQueue |-> InsertAt(rest,
                   getWrongReinsertPosition(Len(rest), u), updatedEntry),
                entry |-> updatedEntry, wasMastered |-> FALSE]

-----------------------------------------------------------------------------
(* Answer judging: utils.ts lines 15-38.  A string is a sequence of        *)
(* characters; "a'" and "A'" stand for the letter a with an acute accent   *)
(* in lower and upper case.                                                *)

lowerChar(c) == IF c = "A" THEN "a" ELSE IF c = "A'" THEN "a'" ELSE c

\* NFD decomposition followed by removal of the combining marks
stripChar(c) == IF c = "a'" THEN "a" ELSE IF c = "A'" THEN "A" ELSE c

toLowerCase(str) == [i \in 1..Len(str) |-> lowerChar(str[i])]

RECURSIVE trimStart(_)
trimStart(str) ==
  IF str # <<>> /\ Head(str) = " " THEN trimStart(Tail(str)) ELSE str

RECURSIVE trimEnd(_)
trimEnd(str) ==
  IF str # <<>> /\ str[Len(str)] = " "
  THEN trimEnd(SubSeq(str, 1, Len(str) - 1)) ELSE str

trim(str) == trimEnd(trimStart(str))

normalizeString(str) ==
  LET t == trim(toLowerCase(str))
  IN [i \in 1..Len(t) |-> stripChar(t[i])]

isNearMatch(userAnswer, correctAnswer) ==
  LET normalizedMatch == normalizeString(userAnswer) = normalizeString(correctAnswer)
      exactMatch == trim(toLowerCase(userAnswer)) = trim(toLowerCase(correctAnswer))
  IN normalizedMatch /\ ~exactMatch

\* 100 * correct / total rounded to the nearest integer, a half rounded up
roundedPercent(correct, total) == (200 * correct + total) \div (2 * total)

\* The pairs <<correct, total>> with total <= 200 at which the double
\* (correct / total) * 100 lies just below a half that 100 * correct / total
\* reaches exactly: (23 / 40) * 100 is 57.49999999999999.  At every other
\* pair with total <= 200 the double rounds as the exact quotient does.
FloatShortfalls ==
  { <<23, 40>>, <<46, 80>>, <<69, 120>>, <<92, 160>>,
    <<29, 200>>, <<57, 200>>, <<113, 200>>, <<115, 200>> }

\* calculateAccuracy: Math.round((correct / total) * 100) in double
\* arithmetic, for total <= 200
calculateAccuracy(correct, total) ==
  IF total = 0 THEN 0
  ELSE IF <<correct, total>> \in FloatShortfalls
       THEN roundedPercent(correct, total) - 1
       ELSE roundedPercent(correct, total)

-----------------------------------------------------------------------------
(* The store's data: the state loadFromSupabase leaves (part_003 lines     *)
(* 614-692) for a learner with two groups who has drilled group 1 on the   *)
(* eight days before StartDay.                                             *)

NullDate == 0 - 1
NoSession == [id |-> 0]
NoError == "null"

\* the day of the first new Date() of the run, read in its first hour
StartDay == 40

\* the session ids already used by the sessions loaded from the database
LoadedSessions == 8

GroupIds == 1..2

Word(id, g, lvl, last, next, att, cor, st) ==
  [id |-> id, groupId |-> g, portuguese |-> <<"a'">>, level |-> lvl,
   lastReviewDate |-> last, nextReviewDate |-> next,
   totalAttempts |-> att, totalCorrect |-> cor, totalWrong |-> att - cor,
   isMuted |-> FALSE, status |-> st]

\* A learner whose group 1 holds one due word and one word at level 8, and
\* whose group 2 is still empty.
NarrowWords ==
  [w \in 1..2 |->
     CASE w = 1 -> Word(1, 1, 5, instant(StartDay - 30, 1), instant(StartDay, 1),
                        25, 19, "learning")
       [] OTHER -> Word(2, 1, 8, instant(StartDay - 1, 1),
                        addDays(instant(StartDay - 1, 1), TenYears),
                        45, 36, "learned")]

\* A learner whose group 1 holds four due words, one of them new.
WideWords ==
  [w \in 1..5 |->
     CASE w = 1 -> Word(1, 1, 0, NullDate, instant(StartDay - 8, 1), 0, 0, "new")
       [] w = 2 -> Word(2, 1, 1, instant(StartDay - 1, 1), instant(StartDay, 1),
                        9, 7, "learning")
       [] w = 3 -> Word(3, 1, 2, instant(StartDay - 3, 1), instant(StartDay, 1),
                        20, 16, "learning")
       [] w = 4 -> Word(4, 1, 5, instant(StartDay - 30, 1), instant(StartDay, 1),
                        45, 35, "learning")
       [] OTHER -> Word(5, 2, 0, NullDate, instant(StartDay - 8, 1), 0, 0, "new")]

\* words as the array the store holds, in id order
WordList(ws) == [i \in 1..Cardinality(DOMAIN ws) |-> ws[i]]

totalAttemptsOf(ws) == SumSeq([i \in 1..Len(WordList(ws)) |-> ws[i].totalAttempts])

totalCorrectOf(ws) == SumSeq([i \in 1..Len(WordList(ws)) |-> ws[i].totalCorrect])

\* fetchGroups (supabase-data.ts lines 82-100): group 1 as its last completed
\* session left it, group 2 still locked
InitGroups(ws) ==
  LET groupWords == SelectSeq(WordList(ws), LAMBDA w : w.groupId = 1)
      groupCorrect == SumSeq([i \in 1..Len(groupWords) |-> groupWords[i].totalCorrect])
      groupTotal == SumSeq([i \in 1..Len(groupWords) |-> groupWords[i].totalAttempts])
  IN << [id |-> 1, isUnlocked |-> TRUE, completedSessions |-> LoadedSessions,
         accuracy |-> calculateAccuracy(groupCorrect, groupTotal)],
        [id |-> 2, isUnlocked |-> FALSE, completedSessions |-> 0, accuracy |-> 0] >>

\* fetchDrillSessions (supabase-data.ts lines 102-120): one session on each of
\* the LoadedSessions days before StartDay, loaded without its answer log
InitSessions ==
  [i \in 1..LoadedSessions |->
     [id |-> i, groupId |-> 1,
      startedAt |-> instant(StartDay - LoadedSessions - 1 + i, 1),
      completedAt |-> instant(StartDay - LoadedSessions - 1 + i, 1),
      wordResults |-> <<>>, accuracy |-> 79]]

\* the sessionGoal of the initial appState (part_003 line 602)
DefaultSessionGoal == 50

\* the appState loadFromSupabase computes (part_003 lines 633-688)
InitAppState(ws) ==
  [currentGroupId |-> 1,
   totalWordsLearned |-> Len(SelectSeq(WordList(ws), LAMBDA w : w.status = "learned")),
   overallAccuracy |-> calculateAccuracy(totalCorrectOf(ws), totalAttemptsOf(ws)),
   dailyStreak |-> LoadedSessions, lastSessionDate |-> StartDay - 1,
   sessionGoal |-> DefaultSessionGoal]

\* the answers typed: empty, blank, the word as stored, the word in upper
\* case after a blank, and another word
Answers == { <<>>, <<" ">>, <<"a'">>, <<" ", "A'">>, <<"x">> }

IdleEngine == [phase |-> "idle"]

StoreInit(ws) ==
  /\ words = ws
  /\ groups = InitGroups(ws)
  /\ sessions = InitSessions
  /\ appState = InitAppState(ws)
  /\ currentSession = NoSession
  /\ sessionQueue = <<>>
  /\ sessionMasteredIds = <<>>
  /\ sessionTotalWords = 0
  /\ error = NoError
  /\ clock = instant(StartDay, 0)
  /\ nextSessionId = LoadedSessions + 1

Init ==
  /\ \E ws \in {NarrowWords, WideWords} : StoreInit(ws)
  /\ strays = 0
  /\ engine = IdleEngine

\* the caps that bound a run: lifetime attempts over all words (the learner
\* of WideWords arrives with more of them and answers less often in a run),
\* session ids handed out, sessions held in store.sessions
AttemptCap == totalAttemptsOf(NarrowWords) + MaxAnswers
SessionIdCap == LoadedSessions + 1 + MaxSessions
SessionsCap == LoadedSessions + MaxCompletions

-----------------------------------------------------------------------------
(* The store's actions: part_003 lines 825-1186.                           *)

findGroup(gs, gid) == SelectSeq(gs, LAMBDA g : g.id = gid)

\* the selection without the fallback: the due words or nothing
selectWordsDueOnly(groupWords, now) == getDueWords(groupWords, now)

\* the words startDrillSession builds the queue from: selectedWords (lines
\* 834-838)
selectWords(groupWords, now) ==
  LET dueWords == getDueWords(groupWords, now)
  IN IF Len(dueWords) > 0 THEN dueWords ELSE sortByLevel(groupWords)

\* startDrillSession (lines 825-862)
startDrillSession(groupId) ==
  LET found == findGroup(groups, groupId)
  IN IF found = <<>> \/ ~Head(found).isUnlocked
     THEN /\ error' = "Group not found or locked"
          /\ UNCHANGED <<words, groups, sessions, appState, currentSession,
                         sessionQueue, sessionMasteredIds, sessionTotalWords,
                         clock, nextSessionId>>
     ELSE
       LET groupWords == SelectSeq(WordList(words),
                           LAMBDA w : w.groupId = groupId /\ ~w.isMuted)
           selectedWords == selectWords(groupWords, clock)
           queue == buildInitialQueue(selectedWords, appState.sessionGoal)
           session == [id |-> nextSessionId, groupId |-> groupId,
                       startedAt |-> clock, completedAt |-> NullDate,
                       wordResults |-> <<>>, accuracy |-> 0]
       IN /\ currentSession' = session
          /\ sessionQueue' = queue
          /\ sessionMasteredIds' = <<>>
          /\ sessionTotalWords' = Len(queue)
          /\ appState' = [appState EXCEPT !.currentGroupId = groupId]
          /\ nextSessionId' = nextSessionId + 1
          /\ UNCHANGED <<words, groups, sessions, error, clock>>

\* an incorrect answer sent through processAnswer, as a skip is
incorrectQueueReinserted(queue) ==
  IF Len(queue) > 0 THEN processAnswer(queue, FALSE, 0).newQueue ELSE queue

\* an incorrect answer taking the head entry out of the queue
incorrectQueueDropping(queue) ==
  IF Len(queue) > 0 THEN Tail(queue) ELSE queue

\* the queue submitAnswer stores after an incorrect answer (lines 921-923)
incorrectQueue(queue) ==
  IF Len(queue) > 0
  THEN <<[queue[1] EXCEPT !.sessionCorrectStreak = 0]>> \o Tail(queue)
  ELSE queue

\* the record put in front of the log instead of at its end
withWordResultFirst(session, wordResult) ==
  [session EXCEPT !.wordResults = <<wordResult>> \o session.wordResults]

\* the session submitAnswer stores: the log with the new record at its end
\* (lines 912-915 and 926-929)
withWordResult(session, wordResult) ==
  [session EXCEPT !.wordResults = Append(session.wordResults, wordResult)]

\* the word with the attempt counted but a wrong answer left out of totalWrong
countedWordCorrectOnly(word, isCorrect, status, now) ==
  [word EXCEPT !.totalAttempts = word.totalAttempts + 1,
               !.totalCorrect = word.totalCorrect + (IF isCorrect THEN 1 ELSE 0),
               !.lastReviewDate = now,
               !.status = status]

\* the word with the attempt counted and, on a wrong answer, dropped a level
\* and scheduled anew on the spot
countedWordRescheduled(word, isCorrect, status, now) ==
  [word EXCEPT !.totalAttempts = word.totalAttempts + 1,
               !.totalCorrect = word.totalCorrect + (IF isCorrect THEN 1 ELSE 0),
               !.totalWrong = word.totalWrong + (IF isCorrect THEN 0 ELSE 1),
               !.lastReviewDate = now,
               !.status = status,
               !.level = IF isCorrect THEN word.level ELSE dropLevel(word.level),
               !.nextReviewDate =
                  IF isCorrect THEN word.nextReviewDate
                  ELSE calculateNextReviewDate(dropLevel(word.level), now)]

\* the word submitAnswer stores: updatedWord (lines 887-894)
countedWord(word, isCorrect, status, now) ==
  [word EXCEPT !.totalAttempts = word.totalAttempts + 1,
               !.totalCorrect = word.totalCorrect + (IF isCorrect THEN 1 ELSE 0),
               !.totalWrong = word.totalWrong + (IF isCorrect THEN 0 ELSE 1),
               !.lastReviewDate = now,
               !.status = status]

\* submitAnswer (lines 865-937); u is the value Math.random() returns inside
\* processAnswer
submitAnswer(wordId, answer, u) ==
  IF currentSession = NoSession
  THEN /\ error' = "No active session"
       /\ UNCHANGED <<words, groups, sessions, appState, currentSession,
                      sessionQueue, sessionMasteredIds, sessionTotalWords,
                      clock, nextSessionId>>
  ELSE IF wordId \notin DOMAIN words
  THEN /\ error' = "Word not found"
       /\ UNCHANGED <<words, groups, sessions, appState, currentSession,
                      sessionQueue, sessionMasteredIds, sessionTotalWords,
                      clock, nextSessionId>>
  ELSE
    LET word == words[wordId]
        isCorrect == toLowerCase(trim(answer)) = toLowerCase(word.portuguese)
        nearMatch == isNearMatch(answer, word.portuguese)
        status == IF word.status = "new" /\ word.totalAttempts = 0
                  THEN "learning" ELSE word.status
        updatedWord == countedWord(word, isCorrect, status, clock)
        wordResult == [wordId |-> wordId, isCorrect |-> isCorrect,
                       isNearMatch |-> nearMatch]
        withResult == withWordResult(currentSession, wordResult)
    IN IF isCorrect
       THEN LET r == processAnswer(sessionQueue, TRUE, u)
            IN IF r.threw
               THEN \* the Error leaves submitAnswer before set() is reached
                    /\ UNCHANGED <<words, groups, sessions, appState,
                                   currentSession, sessionQueue,
                                   sessionMasteredIds, sessionTotalWords, error,
                                   clock, nextSessionId>>
               ELSE /\ words' = [words EXCEPT ![wordId] = updatedWord]
                    /\ currentSession' = withResult
                    /\ sessionQueue' = r.newQueue
                    /\ sessionMasteredIds' =
                         IF r.wasMastered THEN Append(sessionMasteredIds, wordId)
                         ELSE sessionMasteredIds
                    /\ UNCHANGED <<groups, sessions, appState, sessionTotalWords,
                                   error, clock, nextSessionId>>
       ELSE /\ words' = [words EXCEPT ![wordId] = updatedWord]
            /\ currentSession' = withResult
            /\ sessionQueue' = incorrectQueue(sessionQueue)
            /\ UNCHANGED <<groups, sessions, appState, sessionMasteredIds,
                           sessionTotalWords, error, clock, nextSessionId>>

\* skipWord (lines 940-945)
skipWord(u) ==
  IF Len(sessionQueue) = 0
  THEN UNCHANGED <<words, groups, sessions, appState, currentSession,
                      sessionQueue, sessionMasteredIds, sessionTotalWords, error,
                      clock, nextSessionId>>
  ELSE /\ sessionQueue' = processAnswer(sessionQueue, FALSE, u).newQueue
       /\ UNCHANGED <<words, groups, sessions, appState, currentSession,
                      sessionMasteredIds, sessionTotalWords, error, clock,
                      nextSessionId>>

\* the level rule with the wrong-answer test ahead of the mastery test
sessionLevelWrongFirst(w, masteredSet, wordsWithWrongAnswer) ==
  IF w.id \in wordsWithWrongAnswer THEN dropLevel(w.level)
  ELSE IF w.id \in masteredSet THEN advanceLevel(w.level)
  ELSE w.level

\* the level completeSession gives a word of the session (lines 973-978)
sessionLevel(w, masteredSet, wordsWithWrongAnswer) ==
  IF w.id \in masteredSet THEN advanceLevel(w.level)
  ELSE IF w.id \in wordsWithWrongAnswer THEN dropLevel(w.level)
  ELSE w.level

\* completeSession storing level and date but leaving the status as it was
completedWordStaleStatus(w, sessionWordIds, masteredSet, wordsWithWrongAnswer, now) ==
  IF w.id \notin sessionWordIds THEN w
  ELSE LET newLevel == IF w.id \in masteredSet THEN advanceLevel(w.level)
                       ELSE IF w.id \in wordsWithWrongAnswer THEN dropLevel(w.level)
                       ELSE w.level
       IN [w EXCEPT !.level = newLevel,
                    !.nextReviewDate = calculateNextReviewDate(newLevel, now)]

\* completeSession dating the next review by the level the word had
completedWordOldLevelDate(w, sessionWordIds, masteredSet, wordsWithWrongAnswer, now) ==
  IF w.id \notin sessionWordIds THEN w
  ELSE LET newLevel == sessionLevel(w, masteredSet, wordsWithWrongAnswer)
           newStatus == IF newLevel >= 6 THEN "learned"
                        ELSE IF w.totalAttempts > 0 THEN "learning" ELSE "new"
       IN [w EXCEPT !.level = newLevel,
                    !.nextReviewDate = calculateNextReviewDate(w.level, now),
                    !.status = newStatus]

\* the word completeSession stores for w (lines 970-988)
completedWord(w, sessionWordIds, masteredSet, wordsWithWrongAnswer, now) ==
  IF w.id \notin sessionWordIds THEN w
  ELSE LET newLevel == sessionLevel(w, masteredSet, wordsWithWrongAnswer)
           newStatus == IF newLevel >= 6 THEN "learned"
                        ELSE IF w.totalAttempts > 0 THEN "learning" ELSE "new"
       IN [w EXCEPT !.level = newLevel,
                    !.nextReviewDate = calculateNextReviewDate(newLevel, now),
                    !.status = newStatus]

\* the daily streak rule counting a second session of the same day again
nextDailyStreakCounting(lastSession, dailyStreak, now) ==
  IF lastSession = NullDate THEN 1
  ELSE IF lastSession = now \/ lastSession = now - 1 THEN dailyStreak + 1 ELSE 1

\* the daily streak completeSession stores (lines 1025-1039)
nextDailyStreak(lastSession, dailyStreak, now) ==
  IF lastSession = NullDate THEN 1
  ELSE IF lastSession = now THEN dailyStreak
  ELSE IF lastSession = now - 1 THEN dailyStreak + 1 ELSE 1

\* the groups left as they were while the rest of the completion is stored
completedGroupsUncounted(gs, groupId, updatedWords) == gs

\* completeSession keeping the next group unlocked only while the accuracy
\* of the group holds
completedGroupsRelocking(gs, groupId, updatedWords) ==
  LET groupWords == SelectSeq(WordList(updatedWords), LAMBDA w : w.groupId = groupId)
      groupCorrect == SumSeq([i \in 1..Len(groupWords) |-> groupWords[i].totalCorrect])
      groupTotal == SumSeq([i \in 1..Len(groupWords) |-> groupWords[i].totalAttempts])
      groupAccuracy == calculateAccuracy(groupCorrect, groupTotal)
      currentGroupIndex == CHOOSE i \in 1..Len(gs) : gs[i].id = groupId
      completedSessions == gs[currentGroupIndex].completedSessions + 1
      shouldUnlockNext == groupAccuracy >= 80 /\ completedSessions >= 2
      nextGroupIndex == currentGroupIndex + 1
  IN [i \in 1..Len(gs) |->
        IF i = currentGroupIndex
        THEN [gs[i] EXCEPT !.completedSessions = completedSessions,
                           !.accuracy = groupAccuracy]
        ELSE IF i = nextGroupIndex
        THEN [gs[i] EXCEPT !.isUnlocked = shouldUnlockNext]
        ELSE gs[i]]

\* the groups completeSession stores (lines 990-1017)
completedGroups(gs, groupId, updatedWords) ==
  LET groupWords == SelectSeq(WordList(updatedWords), LAMBDA w : w.groupId = groupId)
      groupCorrect == SumSeq([i \in 1..Len(groupWords) |-> groupWords[i].totalCorrect])
      groupTotal == SumSeq([i \in 1..Len(groupWords) |-> groupWords[i].totalAttempts])
      groupAccuracy == calculateAccuracy(groupCorrect, groupTotal)
      currentGroupIndex == CHOOSE i \in 1..Len(gs) : gs[i].id = groupId
      completedSessions == gs[currentGroupIndex].completedSessions + 1
      shouldUnlockNext == groupAccuracy >= 80 /\ completedSessions >= 2
      nextGroupIndex == currentGroupIndex + 1
  IN [i \in 1..Len(gs) |->
        IF i = currentGroupIndex
        THEN [gs[i] EXCEPT !.completedSessions = completedSessions,
                           !.accuracy = groupAccuracy]
        ELSE IF shouldUnlockNext /\ i = nextGroupIndex
        THEN [gs[i] EXCEPT !.isUnlocked = TRUE]
        ELSE gs[i]]

\* completeSession (lines 948-1077)
completeSession ==
  IF currentSession = NoSession
  THEN UNCHANGED <<words, groups, sessions, appState, currentSession,
                      sessionQueue, sessionMasteredIds, sessionTotalWords, error,
                      clock, nextSessionId>>
  ELSE
    LET results == currentSession.wordResults
        correctAnswers == Len(SelectSeq(results, LAMBDA r : r.isCorrect))
        totalAnswers == Len(results)
        sessionAccuracy == calculateAccuracy(correctAnswers, totalAnswers)
        completedSession == [currentSession EXCEPT !.completedAt = clock,
                                                   !.accuracy = sessionAccuracy]
        sessionWordIds == {results[i].wordId : i \in 1..Len(results)}
        wordsWithWrongAnswer ==
          {results[i].wordId : i \in {j \in 1..Len(results) : ~results[j].isCorrect}}
        masteredSet == Range(sessionMasteredIds)
        updatedWords ==
          [id \in DOMAIN words |->
             completedWord(words[id], sessionWordIds, masteredSet,
                           wordsWithWrongAnswer, clock)]
        all == WordList(updatedWords)
        totalCorrect == SumSeq([i \in 1..Len(all) |-> all[i].totalCorrect])
        totalSeen == SumSeq([i \in 1..Len(all) |-> all[i].totalAttempts])
    IN IF findGroup(groups, currentSession.groupId) = <<>>
       THEN UNCHANGED <<words, groups, sessions, appState, currentSession,
                           sessionQueue, sessionMasteredIds, sessionTotalWords,
                           error, clock, nextSessionId>>
       ELSE /\ words' = updatedWords
            /\ sessions' = Append(sessions, completedSession)
            /\ groups' = completedGroups(groups, currentSession.groupId, updatedWords)
            /\ currentSession' = completedSession
            /\ appState' = [appState EXCEPT
                 !.totalWordsLearned =
                    Len(SelectSeq(all, LAMBDA w : w.status = "learned")),
                 !.overallAccuracy = calculateAccuracy(totalCorrect, totalSeen),
                 !.dailyStreak = nextDailyStreak(appState.lastSessionDate,
                                                 appState.dailyStreak,
                                                 dateString(clock)),
                 !.lastSessionDate = dateString(clock)]
            /\ UNCHANGED <<sessionQueue, sessionMasteredIds, sessionTotalWords,
                           error, clock, nextSessionId>>

\* clearSession taking the answers of the discarded session back out of the
\* counters of the words
clearSessionRollingBack ==
  LET log == IF currentSession = NoSession THEN <<>> ELSE currentSession.wordResults
      own(w) == SelectSeq(log, LAMBDA r : r.wordId = w)
      correct(w) == Len(SelectSeq(own(w), LAMBDA r : r.isCorrect))
  IN /\ currentSession' = NoSession
     /\ sessionQueue' = <<>>
     /\ sessionMasteredIds' = <<>>
     /\ sessionTotalWords' = 0
     /\ words' = [w \in DOMAIN words |->
                    [words[w] EXCEPT
                       !.totalAttempts = @ - Len(own(w)),
                       !.totalCorrect = @ - correct(w),
                       !.totalWrong = @ - (Len(own(w)) - correct(w))]]
     /\ UNCHANGED <<groups, sessions, appState, error, clock, nextSessionId>>

\* clearSession (lines 1090-1097)
clearSession ==
  /\ currentSession' = NoSession
  /\ sessionQueue' = <<>>
  /\ sessionMasteredIds' = <<>>
  /\ sessionTotalWords' = 0
  /\ UNCHANGED <<words, groups, sessions, appState, error, clock,
                 nextSessionId>>

\* unlockNextGroup (lines 1117-1132)
unlockNextGroup(currentGroupId) ==
  LET idx == {i \in 1..Len(groups) : groups[i].id = currentGroupId}
  IN IF idx # {} /\ (CHOOSE i \in idx : TRUE) < Len(groups)
     THEN /\ groups' = [groups EXCEPT ![(CHOOSE i \in idx : TRUE) + 1].isUnlocked = TRUE]
          /\ UNCHANGED <<words, sessions, appState, currentSession, sessionQueue,
                         sessionMasteredIds, sessionTotalWords, error, clock,
                         nextSessionId>>
     ELSE UNCHANGED <<words, groups, sessions, appState, currentSession,
                         sessionQueue, sessionMasteredIds, sessionTotalWords,
                         error, clock, nextSessionId>>

mutedCount(ws) == Cardinality({id \in DOMAIN ws : ws[id].isMuted})

\* muteWord marking the word and leaving the queue as it is
muteWordKeepingQueue(wordId) ==
  IF wordId \notin DOMAIN words
  THEN UNCHANGED <<words, groups, sessions, appState, currentSession,
                      sessionQueue, sessionMasteredIds, sessionTotalWords, error,
                      clock, nextSessionId>>
  ELSE /\ words' = [words EXCEPT ![wordId].isMuted = TRUE]
       /\ UNCHANGED <<groups, sessions, appState, currentSession, sessionQueue,
                      sessionMasteredIds, sessionTotalWords, error, clock,
                      nextSessionId>>

\* muteWord (lines 1159-1172)
muteWord(wordId) ==
  IF wordId \notin DOMAIN words
  THEN UNCHANGED <<words, groups, sessions, appState, currentSession,
                      sessionQueue, sessionMasteredIds, sessionTotalWords, error,
                      clock, nextSessionId>>
  ELSE /\ words' = [words EXCEPT ![wordId].isMuted = TRUE]
       /\ sessionQueue' = SelectSeq(sessionQueue, LAMBDA e : e.wordId # wordId)
       /\ UNCHANGED <<groups, sessions, appState, currentSession,
                      sessionMasteredIds, sessionTotalWords, error, clock,
                      nextSessionId>>

\* a day passes: new Date() returns the same hour of the next day
nextDay ==
  /\ clock' = addDays(clock, 1)
  /\ UNCHANGED <<words, groups, sessions, appState, currentSession, sessionQueue,
                 sessionMasteredIds, sessionTotalWords, error, nextSessionId>>

-----------------------------------------------------------------------------
(* Spec: the store driven through the actions a drill session uses.        *)

\* whether wordId is not the word of the head entry
offHead(wordId) == sessionQueue = <<>> \/ Head(sessionQueue).wordId # wordId

Next ==
  \/ /\ nextSessionId < SessionIdCap
     /\ \E g \in GroupIds : startDrillSession(g)
     /\ UNCHANGED <<strays, engine>>
  \/ /\ totalAttemptsOf(words) < AttemptCap
     /\ \E w \in DOMAIN words, a \in Answers, u \in RandomUnit :
          /\ offHead(w) => strays < MaxStrays
          /\ submitAnswer(w, a, u)
          /\ strays' = IF offHead(w) THEN strays + 1 ELSE strays
     /\ UNCHANGED engine
  \/ /\ \E u \in RandomUnit : skipWord(u)
     /\ UNCHANGED <<strays, engine>>
  \/ /\ Len(sessions) < SessionsCap
     /\ completeSession
     /\ UNCHANGED <<strays, engine>>
  \/ /\ clearSession
     /\ UNCHANGED <<strays, engine>>

Spec == Init /\ [][Next]_vars

-----------------------------------------------------------------------------
(* SpecBuild: buildInitialQueue applied to every candidate list of at most *)
(* MaxCands words, each new or under review, and every session goal that   *)
(* cuts the list or leaves it whole.                                       *)

\* the candidate at position i: a new word, or a word already attempted
Candidate(i, isNew) ==
  IF isNew THEN Word(i, 1, 0, NullDate, instant(StartDay, 0), 0, 0, "new")
  ELSE Word(i, 1, 1, instant(StartDay - 1, 0), instant(StartDay, 0), 1, 1, "learning")

Candidates(n, newOnes) == [i \in 1..n |-> Candidate(i, i \in newOnes)]

InitBuild ==
  /\ StoreInit(NarrowWords)
  /\ strays = 0
  /\ \E n \in 0..MaxCands, goal \in (0..MaxCands) \cup {DefaultSessionGoal} :
       \E newOnes \in SUBSET (1..n) :
         engine = [phase |-> "candidates", words |-> Candidates(n, newOnes),
                   sessionGoal |-> goal]

Build ==
  /\ engine.phase = "candidates"
  /\ engine' = [phase |-> "built", words |-> engine.words,
                sessionGoal |-> engine.sessionGoal,
                queue |-> buildInitialQueue(engine.words, engine.sessionGoal)]
  /\ UNCHANGED <<storeVars, strays>>

NextBuild == Build

SpecBuild == InitBuild /\ [][NextBuild]_vars

-----------------------------------------------------------------------------
(* SpecQueue: processAnswer applied again and again to a queue built by    *)
(* buildInitialQueue from at most MaxQueue candidates.                     *)

InitQueue ==
  /\ StoreInit(NarrowWords)
  /\ strays = 0
  /\ \E n \in 0..MaxQueue, goal \in (0..MaxQueue) \cup {DefaultSessionGoal} :
       \E newOnes \in SUBSET (1..n) :
         LET queue == buildInitialQueue(Candidates(n, newOnes), goal)
         IN engine = [phase |-> "queue",
                      initial |-> {queue[i].wordId : i \in 1..Len(queue)},
                      queue |-> queue, mastered |-> {}]

\* one processAnswer call; mastered collects the entries returned with
\* wasMastered = true
Transition(isCorrect, u) ==
  LET r == processAnswer(engine.queue, isCorrect, u)
  IN /\ engine.phase = "queue"
     /\ ~r.threw
     /\ engine' = [engine EXCEPT
                     !.queue = r.newQueue,
                     !.mastered = IF r.wasMastered THEN @ \cup {r.entry} ELSE @]
     /\ UNCHANGED <<storeVars, strays>>

NextQueue == \E isCorrect \in BOOLEAN, u \in RandomUnit : Transition(isCorrect, u)

SpecQueue == InitQueue /\ [][NextQueue]_vars

-----------------------------------------------------------------------------
(* SpecReinsert: processAnswer applied once, with a correct answer, to a   *)
(* queue in the middle of a session: a head entry with any streak short of *)
(* mastery, followed by up to MaxTail entries with streaks of their own.   *)

\* a queue of 1 + n entries whose head has the streak headStreak
MidSessionQueue(headStreak, n) ==
  [i \in 1..(n + 1) |->
     IF i = 1 THEN QueueEntry(1, headStreak) ELSE QueueEntry(i, i % MasteryStreak)]

InitReinsert ==
  /\ StoreInit(NarrowWords)
  /\ strays = 0
  /\ \E headStreak \in 0..(MasteryStreak - 1), n \in 0..MaxTail :
       engine = [phase |-> "drawn", queue |-> MidSessionQueue(headStreak, n)]

\* one processAnswer call with isCorrect = true
CorrectAnswer(u) ==
  /\ engine.phase = "drawn"
  /\ engine' = [phase |-> "answered", queue |-> engine.queue,
                result |-> processAnswer(engine.queue, TRUE, u)]
  /\ UNCHANGED <<storeVars, strays>>

NextReinsert == \E u \in RandomUnit : CorrectAnswer(u)

SpecReinsert == InitReinsert /\ [][NextReinsert]_vars

-----------------------------------------------------------------------------
(* SpecReview: calculateNextReviewDate applied once to a drawn level and   *)
(* a drawn fromDate.                                                       *)

InitReview ==
  /\ StoreInit(NarrowWords)
  /\ strays = 0
  /\ \E level \in 0..8, day \in 0..MaxFromDays, hour \in 0..(TicksPerDay - 1) :
       engine = [phase |-> "level", level |-> level,
                 fromDate |-> instant(StartDay + day, hour)]

\* one calculateNextReviewDate call
Schedule ==
  /\ engine.phase = "level"
  /\ engine' = [phase |-> "scheduled", level |-> engine.level,
                fromDate |-> engine.fromDate,
                next |-> calculateNextReviewDate(engine.level, engine.fromDate)]
  /\ UNCHANGED <<storeVars, strays>>

NextReview == Schedule

SpecReview == InitReview /\ [][NextReview]_vars

-----------------------------------------------------------------------------
(* SpecStart: startDrillSession called, with the id of group 1, of group 2 *)
(* or of no group, on a store loaded with drawn words and with group 2     *)
(* locked or unlocked.                                                     *)

\* what is drawn for a word: its group, its level (a word at level 0 is new
\* and due), whether it is muted, whether it is due
StartChoices ==
  {c \in [groupId : GroupIds, level : {0, 2, 5}, isMuted : BOOLEAN, isDue : BOOLEAN] :
     c.level = 0 => c.isDue}

\* the words a choice per id stands for
StartWords(choice) ==
  [i \in DOMAIN choice |->
     [Word(i, choice[i].groupId, choice[i].level,
           IF choice[i].level = 0 THEN NullDate ELSE instant(StartDay - 3, 1),
           IF choice[i].isDue THEN instant(StartDay, 1) ELSE instant(StartDay + 4, 0),
           IF choice[i].level = 0 THEN 0 ELSE 5,
           IF choice[i].level = 0 THEN 0 ELSE 4,
           IF choice[i].level = 0 THEN "new" ELSE "learning")
        EXCEPT !.isMuted = choice[i].isMuted]]

\* the ids startDrillSession is called with: the two groups and no group
StartIds == GroupIds \cup {3}

InitStart ==
  /\ \E n \in 0..MaxStartWords, unlocked \in BOOLEAN :
       \E choice \in [1..n -> StartChoices] :
         /\ words = StartWords(choice)
         /\ groups = [InitGroups(StartWords(choice)) EXCEPT ![2].isUnlocked = unlocked]
         /\ appState = InitAppState(StartWords(choice))
  /\ sessions = InitSessions
  /\ currentSession = NoSession
  /\ sessionQueue = <<>>
  /\ sessionMasteredIds = <<>>
  /\ sessionTotalWords = 0
  /\ error = NoError
  /\ clock = instant(StartDay, 0)
  /\ nextSessionId = LoadedSessions + 1
  /\ strays = 0
  /\ engine = IdleEngine

NextStart ==
  /\ nextSessionId < LoadedSessions + 1 + MaxStarts
  /\ \E g \in StartIds : startDrillSession(g)
  /\ UNCHANGED <<strays, engine>>

SpecStart == InitStart /\ [][NextStart]_vars

-----------------------------------------------------------------------------
(* SpecDue: getDueWords applied once to a drawn list of words and a drawn  *)
(* asOf instant of StartDay.                                               *)

\* the levels of the words drawn
DueLevels == {0, 1}

\* the instants a drawn word is next due at: the last hour of the day before
\* StartDay, the first and the last hour of StartDay, the first hour of the
\* day after
ReviewInstants ==
  {instant(StartDay - 1, TicksPerDay - 1), instant(StartDay, 0),
   instant(StartDay, TicksPerDay - 1), instant(StartDay + 1, 0)}

DueChoices == [level : DueLevels, isMuted : BOOLEAN, next : ReviewInstants]

\* the word list a choice per position stands for
DueCandidates(choice) ==
  [i \in DOMAIN choice |->
     [Word(i, 1, choice[i].level, NullDate, choice[i].next, 0, 0, "new")
        EXCEPT !.isMuted = choice[i].isMuted]]

InitDue ==
  /\ StoreInit(NarrowWords)
  /\ strays = 0
  /\ \E n \in 0..MaxDueWords, hour \in 0..(TicksPerDay - 1) :
       \E choice \in [1..n -> DueChoices] :
         engine = [phase |-> "words", words |-> DueCandidates(choice),
                   asOf |-> instant(StartDay, hour)]

\* one getDueWords call
SelectDue ==
  /\ engine.phase = "words"
  /\ engine' = [phase |-> "selected", words |-> engine.words,
                asOf |-> engine.asOf,
                due |-> getDueWords(engine.words, engine.asOf)]
  /\ UNCHANGED <<storeVars, strays>>

NextDue == SelectDue

SpecDue == InitDue /\ [][NextDue]_vars

-----------------------------------------------------------------------------
(* SpecDays: the store driven over several days, with near answers and    *)
(* muting, from each history of completed sessions loadFromSupabase can    *)
(* meet: none, one ending today, one ending yesterday, one ending earlier. *)

\* A learner whose group 1 holds two due words, at levels 5 and 2.
PairWords ==
  [w \in 1..2 |->
     CASE w = 1 -> Word(1, 1, 5, instant(StartDay - 30, 1), instant(StartDay, 1),
                        25, 19, "learning")
       [] OTHER -> Word(2, 1, 2, instant(StartDay - 3, 1), instant(StartDay, 1),
                        20, 16, "learning")]

\* the sessions fetchDrillSessions returns for a learner who completed one
\* session on each of the n days that end with lastDay
History(n, lastDay) ==
  [i \in 1..n |->
     [id |-> i, groupId |-> 1,
      startedAt |-> instant(lastDay - n + i, 1),
      completedAt |-> instant(lastDay - n + i, 1),
      wordResults |-> <<>>, accuracy |-> 79]]

\* the histories drawn: no session, or two sessions of which the later was
\* completed today, yesterday, or three days ago
Histories ==
  {History(0, StartDay)} \cup
  {History(2, lastDay) : lastDay \in {StartDay, StartDay - 1, StartDay - 3}}

\* the days on which a session of ss was completed (part_003 lines 644-648)
sessionDates(ss) ==
  {dateString(ss[i].completedAt) :
     i \in {j \in 1..Len(ss) : ss[j].completedAt # NullDate}}

\* the lastSessionDate loadFromSupabase computes (line 651)
loadedLastSessionDate(ss) ==
  IF sessionDates(ss) = {} THEN NullDate
  ELSE CHOOSE d \in sessionDates(ss) : \A e \in sessionDates(ss) : e <= d

\* the dailyStreak loadFromSupabase computes (lines 640-670)
loadedDailyStreak(ss, now) ==
  LET dates == sessionDates(ss)
      latest == loadedLastSessionDate(ss)
  IN IF dates = {} THEN 0
     ELSE IF latest = dateString(now) \/ latest = dateString(now) - 1
     THEN CHOOSE k \in 1..Cardinality(dates) :
            /\ \A j \in 0..(k - 1) : latest - j \in dates
            /\ latest - k \notin dates
     ELSE 0

\* the appState loadFromSupabase computes from the sessions it fetched
loadedAppState(ws, ss, now) ==
  [InitAppState(ws) EXCEPT !.dailyStreak = loadedDailyStreak(ss, now),
                           !.lastSessionDate = loadedLastSessionDate(ss)]

\* the answers typed in SpecDays: the word as stored, and the word without
\* its accent
DayAnswers == { <<"a'">>, <<"a">> }

InitDays ==
  /\ \E ws \in {PairWords}, ss \in Histories :
       /\ words = ws
       /\ groups = InitGroups(ws)
       /\ sessions = ss
       /\ appState = loadedAppState(ws, ss, instant(StartDay, 0))
  /\ currentSession = NoSession
  /\ sessionQueue = <<>>
  /\ sessionMasteredIds = <<>>
  /\ sessionTotalWords = 0
  /\ error = NoError
  /\ clock = instant(StartDay, 0)
  /\ nextSessionId = LoadedSessions + 1
  /\ strays = 0
  /\ engine = IdleEngine

\* the sessions of store.sessions completed in this run
completions == SelectSeq(sessions, LAMBDA s : s.id > LoadedSessions)

NextDays ==
  \/ /\ nextSessionId < SessionIdCap
     /\ \E g \in GroupIds : startDrillSession(g)
     /\ UNCHANGED <<strays, engine>>
  \/ /\ currentSession # NoSession
     /\ Len(currentSession.wordResults) < MaxDayAnswers
     /\ \E w \in DOMAIN words, a \in DayAnswers, u \in RandomUnit :
          /\ offHead(w) => strays < MaxStrays
          /\ submitAnswer(w, a, u)
          /\ strays' = IF offHead(w) THEN strays + 1 ELSE strays
     /\ UNCHANGED engine
  \/ /\ \E u \in RandomUnit : skipWord(u)
     /\ UNCHANGED <<strays, engine>>
  \/ /\ Len(completions) < MaxDayCompletions
     /\ completeSession
     /\ UNCHANGED <<strays, engine>>
  \/ /\ clearSession
     /\ UNCHANGED <<strays, engine>>
  \/ /\ mutedCount(words) < MaxMuted
     /\ \E w \in DOMAIN words : muteWord(w)
     /\ UNCHANGED <<strays, engine>>
  \/ /\ clock < instant(StartDay + MaxDays, 0)
     /\ nextDay
     /\ UNCHANGED <<strays, engine>>

SpecDays == InitDays /\ [][NextDays]_vars

-----------------------------------------------------------------------------
(* SpecComplete: sessions started, answered, completed and cleared, on a   *)
(* store as loadFromSupabase left it or on a store in which importWords    *)
(* (part_003 lines 696-821) has replaced the words and the groups under a  *)
(* session in progress: the words and the one group are new, with ids of   *)
(* their own, while currentSession and sessionQueue still name the group   *)
(* and the words that were there before.                                   *)

\* the ids, before the import, of the group and the words of the session
ReplacedGroupId == 11
ReplacedWordIds == {11, 12}

\* the id importWords gave the new group
ImportedGroupId == 3

\* the words importWords stores: new, at level 0, due at once (getDefaultLevelParams)
ImportedWords ==
  [w \in 1..2 |-> Word(w, ImportedGroupId, 0, NullDate, instant(StartDay, 0), 0, 0, "new")]

\* the groups importWords stores: the first, and here only, group unlocked
ImportedGroups ==
  << [id |-> ImportedGroupId, isUnlocked |-> TRUE, completedSessions |-> 0,
      accuracy |-> 0] >>

\* the logs the session in progress may hold when the import happens
ReplacedLogs ==
  { <<>>,
    <<[wordId |-> 11, isCorrect |-> TRUE, isNearMatch |-> FALSE],
      [wordId |-> 12, isCorrect |-> FALSE, isNearMatch |-> TRUE]>> }

\* the store after importWords, called while a session of the old group was
\* in progress
StoreImported(log) ==
  /\ words = ImportedWords
  /\ groups = ImportedGroups
  /\ sessions = InitSessions
  /\ appState = [InitAppState(PairWords) EXCEPT !.currentGroupId = ImportedGroupId]
  /\ currentSession = [id |-> LoadedSessions + 1, groupId |-> ReplacedGroupId,
                       startedAt |-> instant(StartDay, 0), completedAt |-> NullDate,
                       wordResults |-> log, accuracy |-> 0]
  /\ sessionQueue = <<QueueEntry(12, 0), QueueEntry(11, IF log = <<>> THEN 0 ELSE 1)>>
  /\ sessionMasteredIds = <<>>
  /\ sessionTotalWords = 2
  /\ error = NoError
  /\ clock = instant(StartDay, 0)
  /\ nextSessionId = LoadedSessions + 2

InitComplete ==
  /\ \/ StoreInit(PairWords)
     \/ \E log \in ReplacedLogs : StoreImported(log)
  /\ strays = 0
  /\ engine = IdleEngine

\* engine.last names the action called last
Called(name) == engine' = [phase |-> "store", last |-> name]

NextComplete ==
  \/ /\ nextSessionId < SessionIdCap + 1
     /\ \E g \in GroupIds \cup {ImportedGroupId} : startDrillSession(g)
     /\ Called("startDrillSession")
     /\ UNCHANGED strays
  \/ /\ currentSession # NoSession
     /\ Len(currentSession.wordResults) < MaxDayAnswers
     /\ \E w \in DOMAIN words \cup ReplacedWordIds, a \in DayAnswers, u \in RandomUnit :
          /\ offHead(w) => strays < MaxStrays
          /\ submitAnswer(w, a, u)
          /\ strays' = IF offHead(w) THEN strays + 1 ELSE strays
     /\ Called("submitAnswer")
  \/ /\ Len(completions) < MaxCompletions
     /\ completeSession
     /\ Called("completeSession")
     /\ UNCHANGED strays
  \/ /\ clearSession
     /\ Called("clearSession")
     /\ UNCHANGED strays

SpecComplete == InitComplete /\ [][NextComplete]_vars

-----------------------------------------------------------------------------
(* SpecLongSession: completeSession called on a session of PairWords that *)
(* has gone through many answers.  The words take turns at the head of the *)
(* queue: on each visit the head word is answered correctly and so moves   *)
(* behind the other word; on every other visit of a word a wrong answer    *)
(* comes first, which keeps each streak below MasteryStreak; the first     *)
(* head takes some wrong answers more to begin with.                       *)

\* the word at the head on visit j: word 2, of the lower level, comes first
visitWord(j) == IF j % 2 = 1 THEN 2 ELSE 1

\* whether a wrong answer opens visit j
visitHasWrong(j) == ((j - 1) \div 2) % 2 = 0

\* the record submitAnswer logs for the word stored (ok) or another word typed
answerRecord(wordId, ok) == [wordId |-> wordId, isCorrect |-> ok, isNearMatch |-> FALSE]

RECURSIVE visitsLog(_)
visitsLog(n) ==
  IF n = 0 THEN <<>>
  ELSE visitsLog(n - 1)
         \o (IF visitHasWrong(n) THEN <<answerRecord(visitWord(n), FALSE)>> ELSE <<>>)
         \o <<answerRecord(visitWord(n), TRUE)>>

\* the log after extra wrong answers for the first head and n visits
LongLog(n, extra) == [i \in 1..extra |-> answerRecord(2, FALSE)] \o visitsLog(n)

\* the streak of the entry of word after n visits
streakAfter(word, n) ==
  LET own == {j \in 1..n : visitWord(j) = word}
  IN IF own = {} THEN 0
     ELSE IF visitHasWrong(CHOOSE j \in own : \A k \in own : k <= j) THEN 1 ELSE 2

\* the words after the answers of log, counted by submitAnswer
LongWords(log) ==
  [w \in 1..2 |->
     LET own == SelectSeq(log, LAMBDA r : r.wordId = w)
         correct == Len(SelectSeq(own, LAMBDA r : r.isCorrect))
     IN IF own = <<>> THEN PairWords[w]
        ELSE [PairWords[w] EXCEPT
                !.totalAttempts = @ + Len(own), !.totalCorrect = @ + correct,
                !.totalWrong = @ + (Len(own) - correct),
                !.lastReviewDate = instant(StartDay, 0)]]

InitLongSession ==
  /\ \E n \in 0..MaxVisits, extra \in 0..MaxExtraWrongs :
       /\ words = LongWords(LongLog(n, extra))
       /\ currentSession = [id |-> LoadedSessions + 1, groupId |-> 1,
                            startedAt |-> instant(StartDay, 0),
                            completedAt |-> NullDate,
                            wordResults |-> LongLog(n, extra), accuracy |-> 0]
       /\ sessionQueue =
            <<QueueEntry(visitWord(n + 1), streakAfter(visitWord(n + 1), n)),
              QueueEntry(visitWord(n), streakAfter(visitWord(n), n))>>
  /\ groups = InitGroups(PairWords)
  /\ sessions = InitSessions
  /\ appState = InitAppState(PairWords)
  /\ sessionMasteredIds = <<>>
  /\ sessionTotalWords = 2
  /\ error = NoError
  /\ clock = instant(StartDay, 0)
  /\ nextSessionId = LoadedSessions + 2
  /\ strays = 0
  /\ engine = IdleEngine

NextLongSession ==
  /\ Len(completions) < MaxDayCompletions
  /\ completeSession
  /\ UNCHANGED <<strays, engine>>

SpecLongSession == InitLongSession /\ [][NextLongSession]_vars

-----------------------------------------------------------------------------
(* Vocabulary of the properties.                                           *)

queueIds(queue) == {queue[i].wordId : i \in 1..Len(queue)}

noDuplicateIds(queue) ==
  \A i, j \in 1..Len(queue) : queue[i].wordId = queue[j].wordId => i = j

sessionActive == currentSession # NoSession /\ currentSession.completedAt = NullDate

sessionCompleted == currentSession # NoSession /\ currentSession.completedAt # NullDate

\* the answer log of the current session, empty when there is none
answerLog == IF currentSession = NoSession THEN <<>> ELSE currentSession.wordResults

\* a step of the store that appended one record to the answer log
answerLogged ==
  /\ currentSession # NoSession
  /\ currentSession' # NoSession
  /\ Len(currentSession'.wordResults) = Len(currentSession.wordResults) + 1

lastRecord(log) == log[Len(log)]

\* the store fields a drill answer may touch
answerFields == <<words, currentSession, sessionQueue, sessionMasteredIds>>

BlankAnswers == {a \in Answers : trim(a) = <<>>}

-----------------------------------------------------------------------------
(* Properties.                                                             *)

\* C1: after any sequence of processAnswer calls on a queue built by
\* buildInitialQueue, no word id is in the queue twice, the queue holds only
\* ids of the initial queue, and an id of the initial queue that is no longer
\* in the queue was removed by a call that returned wasMastered = true with a
\* streak of at least 4.
C1_NoDuplicateNoVanish ==
  engine.phase = "queue" =>
    /\ noDuplicateIds(engine.queue)
    /\ queueIds(engine.queue) \subseteq engine.initial
    /\ \A id \in engine.initial \ queueIds(engine.queue) :
         \E e \in engine.mastered : e.wordId = id /\ e.sessionCorrectStreak >= 4

\* C1 witness: one word has been removed by mastery while two others are
\* still queued, one of them with a streak in progress.
C1_Witness ==
  /\ engine.phase = "queue"
  /\ engine.mastered # {}
  /\ Len(engine.queue) >= 2
  /\ \E i \in 1..Len(engine.queue) : engine.queue[i].sessionCorrectStreak > 0

\* C2 (as claimed): a word enters the mastered list exactly on a submitAnswer
\* step that logs a correct answer for it while it is the head of the queue
\* with streak 3, and that step removes it from the queue; and a step that
\* logs an incorrect answer for a queued word leaves that word's entry with
\* streak 0.
C2_MasteredOnFourthCorrect ==
  [][ /\ \A w \in DOMAIN words :
           sessionMasteredIds' = Append(sessionMasteredIds, w) =>
             /\ answerLogged
             /\ lastRecord(currentSession'.wordResults).wordId = w
             /\ lastRecord(currentSession'.wordResults).isCorrect
             /\ sessionQueue # <<>>
             /\ Head(sessionQueue) = QueueEntry(w, 3)
             /\ w \notin queueIds(sessionQueue')
      /\ answerLogged /\ ~lastRecord(currentSession'.wordResults).isCorrect =>
           \A i \in 1..Len(sessionQueue') :
             sessionQueue'[i].wordId = lastRecord(currentSession'.wordResults).wordId
               => sessionQueue'[i].sessionCorrectStreak = 0
    ]_vars

\* C3: in the queue buildInitialQueue returns, a sixth consecutive new entry
\* is placed only when every review word of the capped candidate list has
\* been placed before it.
C3_NewWordThrottle ==
  engine.phase = "built" =>
    LET queue == engine.queue
        limited == SliceTo(engine.words, engine.sessionGoal)
        isNew(id) == engine.words[id].totalAttempts = 0
        reviewIds == {limited[i].id : i \in {k \in 1..Len(limited) :
                                              limited[k].totalAttempts > 0}}
    IN \A j \in 6..Len(queue) :
         (\A k \in (j - 5)..j : isNew(queue[k].wordId)) =>
           \A r \in reviewIds : \E m \in 1..(j - 6) : queue[m].wordId = r

\* C3 witness: the throttle has acted: five new entries, then a review entry,
\* then a new entry again.
C3_Witness ==
  /\ engine.phase = "built"
  /\ \E j \in 6..(Len(engine.queue) - 1) :
       /\ \A k \in (j - 5)..(j - 1) :
            engine.words[engine.queue[k].wordId].totalAttempts = 0
       /\ engine.words[engine.queue[j].wordId].totalAttempts > 0
       /\ engine.words[engine.queue[j + 1].wordId].totalAttempts = 0

\* C4 (as claimed): a submitAnswer call with an empty or whitespace-only
\* answer leaves every word's counters, the answer log and the queue
\* unchanged.
C4_BlankAnswerRejected ==
  [][ \A w \in DOMAIN words, a \in BlankAnswers, u \in RandomUnit :
        submitAnswer(w, a, u) => UNCHANGED <<words, currentSession, sessionQueue>>
    ]_vars

\* C5 (as claimed): once the current session is completed, a submitAnswer
\* call changes no word, no record of the answer log, and neither the queue
\* nor the mastered list.
C5_CompletedSessionReadOnly ==
  [][ sessionCompleted =>
        \A w \in DOMAIN words, a \in Answers, u \in RandomUnit :
          submitAnswer(w, a, u) => UNCHANGED answerFields
    ]_vars

\* C6 (as claimed): a completeSession call on a session that is already
\* completed appends nothing to sessions and changes no group, no word and
\* not the session's completedAt.
C6_CompletedOnce ==
  [][ sessionCompleted /\ completeSession =>
        UNCHANGED <<sessions, groups, words, currentSession>>
    ]_vars

C8_OffHeadRejected ==
  [][ sessionActive /\ sessionQueue # <<>> =>
        \A w \in DOMAIN words \ {Head(sessionQueue).wordId},
           a \in Answers, u \in RandomUnit :
          submitAnswer(w, a, u) => UNCHANGED answerFields
    ]_vars

\* C9 (as claimed): a submitAnswer call on an active session whose queue is
\* empty changes no word, no record of the answer log, and neither the queue
\* nor the mastered list, whether the answer is correct or not.
C9_EmptyQueueRejected ==
  [][ sessionActive /\ sessionQueue = <<>> =>
        \A w \in DOMAIN words, a \in Answers, u \in RandomUnit :
          submitAnswer(w, a, u) => UNCHANGED answerFields
    ]_vars

\* C10: a completeSession step that completes the session gives every word
\* with an answer in the log the level min(level + 1, 8) when the word is in
\* the mastered list, whatever its other answers; else max(level - 2, 0) when
\* one of its logged answers is incorrect, whatever its other answers; else
\* its level before the step.
C10_LevelsAtCompletion ==
  [][ currentSession # NoSession /\ Len(sessions') = Len(sessions) + 1 =>
        LET log == currentSession.wordResults
            answered(w) == \E i \in 1..Len(log) : log[i].wordId = w
            answeredWrong(w) ==
              \E i \in 1..Len(log) : log[i].wordId = w /\ ~log[i].isCorrect
            mastered(w) == \E i \in 1..Len(sessionMasteredIds) :
                             sessionMasteredIds[i] = w
        IN \A w \in DOMAIN words :
             answered(w) =>
               words'[w].level =
                 IF mastered(w) THEN Min(words[w].level + 1, 8)
                 ELSE IF answeredWrong(w) THEN Max(words[w].level - 2, 0)
                 ELSE words[w].level
    ]_vars

\* C10 witness: a session has been completed once in which a word was
\* mastered after an incorrect answer, and the word stands one level higher.
C10_Witness ==
  /\ sessionCompleted
  /\ Len(sessions) = LoadedSessions + 1
  /\ \E i \in 1..Len(sessionMasteredIds) :
       LET w == sessionMasteredIds[i]
       IN /\ \E k \in 1..Len(answerLog) :
               answerLog[k].wordId = w /\ ~answerLog[k].isCorrect
          /\ words = [NarrowWords EXCEPT ![w] = words[w]]
          /\ words[w].level = NarrowWords[w].level + 1

\* a step of completeSession that completed the current session
sessionCompletes ==
  currentSession # NoSession /\ Len(sessions') = Len(sessions) + 1

\* lifetime correct and total answers over the words of group gid
groupCorrectOf(ws, gid) ==
  SumSeq([i \in 1..Len(WordList(ws)) |->
            IF ws[i].groupId = gid THEN ws[i].totalCorrect ELSE 0])

groupTotalOf(ws, gid) ==
  SumSeq([i \in 1..Len(WordList(ws)) |->
            IF ws[i].groupId = gid THEN ws[i].totalAttempts ELSE 0])

\* C11 (as claimed): a completeSession step turns the next group from locked
\* to unlocked exactly when the lifetime correct/total of the session's group
\* is at least 80% and the group's completed-session count, this completion
\* included, is at least 2; a lifetime ratio below 80% never unlocks it.
C11_UnlockAtEightyPercent ==
  [][ sessionCompletes =>
        \A i \in 1..(Len(groups) - 1) :
          groups[i].id = currentSession.groupId /\ ~groups[i + 1].isUnlocked =>
            LET correct == groupCorrectOf(words, groups[i].id)
                total == groupTotalOf(words, groups[i].id)
            IN groups'[i + 1].isUnlocked <=>
                 /\ total > 0
                 /\ 100 * correct >= 80 * total
                 /\ groups[i].completedSessions + 1 >= 2
    ]_vars

\* C12: in every reachable state the status of every word is decided by its
\* level and totalAttempts: learned exactly when level >= 6, learning exactly
\* when totalAttempts > 0 and level < 6, new exactly when totalAttempts = 0.
C12_StatusDerived ==
  \A w \in DOMAIN words :
    /\ words[w].status = "learned" <=> words[w].level >= 6
    /\ words[w].status = "learning" <=>
         (words[w].totalAttempts > 0 /\ words[w].level < 6)
    /\ words[w].status = "new" <=> words[w].totalAttempts = 0

\* C12 witness: a session has been completed in which a word was mastered,
\* and the word has crossed from learning to learned at level 6.
C12_Witness ==
  /\ sessionCompleted
  /\ \E i \in 1..Len(sessionMasteredIds) :
       /\ words[sessionMasteredIds[i]].level = 6
       /\ words[sessionMasteredIds[i]].status = "learned"

\* C13: the answer log of a session is append-only: a step that leaves the
\* same session current either keeps the log or adds one record at its end,
\* every earlier record unchanged; a step that changes a word's counters adds
\* exactly one record, for that word; and a completeSession step keeps the
\* log as it is and stores it whole in sessions.
C13_LogAppendOnly ==
  [][ /\ (/\ currentSession # NoSession
          /\ currentSession' # NoSession
          /\ currentSession'.id = currentSession.id) =>
           LET log == currentSession.wordResults
               log2 == currentSession'.wordResults
           IN \/ log2 = log
              \/ Len(log2) = Len(log) + 1 /\ SubSeq(log2, 1, Len(log)) = log
      /\ \A w \in DOMAIN words :
           words'[w].totalAttempts # words[w].totalAttempts =>
             /\ answerLogged
             /\ lastRecord(currentSession'.wordResults).wordId = w
      /\ sessionCompletes =>
           /\ currentSession'.wordResults = currentSession.wordResults
           /\ lastRecord(sessions').wordResults = currentSession.wordResults
    ]_vars

\* C13 witness: a session with three answers logged, right and wrong, has
\* been completed and stands in sessions with the same three records.
C13_Witness ==
  /\ sessionCompleted
  /\ Len(answerLog) = 3
  /\ answerLog[1].isCorrect /\ ~answerLog[2].isCorrect
  /\ lastRecord(sessions).wordResults = answerLog

\* C14: a completing step of completeSession sets the daily streak from the
\* lastSessionDate it found: 1 when there was none, the same streak when it
\* was today, the streak plus one when it was yesterday, 1 when it was any
\* earlier day; and it sets lastSessionDate to today.
C14_DailyStreak ==
  [][ sessionCompletes =>
        LET last == appState.lastSessionDate
            day == dateString(clock)
        IN /\ appState'.lastSessionDate = day
           /\ last = NullDate => appState'.dailyStreak = 1
           /\ last # NullDate /\ last = day =>
                appState'.dailyStreak = appState.dailyStreak
           /\ last # NullDate /\ last = day - 1 =>
                appState'.dailyStreak = appState.dailyStreak + 1
           /\ last # NullDate /\ last < day - 1 => appState'.dailyStreak = 1
    ]_vars

\* a session completed the day after the two loaded ones: the streak is 3
C14_Witness ==
  /\ sessionCompleted
  /\ loadedLastSessionDate(SubSeq(sessions, 1, Len(sessions) - 1)) = StartDay - 1
  /\ appState.lastSessionDate = StartDay
  /\ appState.dailyStreak = 3

\* C15: a correct answer that does not master the head word puts the head
\* entry, with its streak raised by one, back into the rest of the queue at
\* index min(t, length of the rest), where t is 5 or 6 for a new streak of 1,
\* 10, 11 or 12 for a new streak of 2, and 20 for a new streak of 3; the
\* other entries keep their order and their streaks.
C15_CorrectReinsertion ==
  engine.phase = "answered" /\ ~engine.result.wasMastered =>
    LET front == Head(engine.queue)
        rest == Tail(engine.queue)
        newStreak == front.sessionCorrectStreak + 1
        after == engine.result.newQueue
        targets == IF newStreak = 1 THEN {5, 6}
                   ELSE IF newStreak = 2 THEN 10..12 ELSE {20}
    IN /\ newStreak \in 1..3
       /\ Len(after) = Len(rest) + 1
       /\ \E t \in targets :
            LET idx == Min(t, Len(rest))
            IN /\ after[idx + 1] = QueueEntry(front.wordId, newStreak)
               /\ SubSeq(after, 1, idx) \o SubSeq(after, idx + 2, Len(after)) = rest

\* a second correct answer in a row sent the head entry to index 12 of a rest
\* of twenty entries
C15_Witness ==
  /\ engine.phase = "answered"
  /\ ~engine.result.wasMastered
  /\ Len(engine.queue) = 21
  /\ engine.result.newQueue[13] = QueueEntry(1, 2)

\* the words with an answer in the log of the current session
touchedWords == {answerLog[i].wordId : i \in 1..Len(answerLog)}

\* the days between two reviews of a word at `level`
intervalDays(level) ==
  IF LEVEL_INTERVALS[level] = 0 - 1 THEN TenYears ELSE LEVEL_INTERVALS[level]

countersAddUp(w) == w.totalAttempts = w.totalCorrect + w.totalWrong

\* C17: in every state each word has totalAttempts = totalCorrect +
\* totalWrong.  A step that logs an answer for a word raises that word's
\* totalAttempts by one and, by one, totalCorrect when the answer is recorded
\* correct and totalWrong when it is not; every other step of the store
\* (starting, skipping, muting, completing, clearing, a day passing) and
\* every other word keep the three counters.
C17_CountersAddUp ==
  [][ \A w \in DOMAIN words :
        /\ countersAddUp(words[w]) /\ countersAddUp(words'[w])
        /\ IF answerLogged /\ lastRecord(currentSession'.wordResults).wordId = w
           THEN /\ words'[w].totalAttempts = words[w].totalAttempts + 1
                /\ IF lastRecord(currentSession'.wordResults).isCorrect
                   THEN /\ words'[w].totalCorrect = words[w].totalCorrect + 1
                        /\ words'[w].totalWrong = words[w].totalWrong
                   ELSE /\ words'[w].totalCorrect = words[w].totalCorrect
                        /\ words'[w].totalWrong = words[w].totalWrong + 1
           ELSE /\ words'[w].totalAttempts = words[w].totalAttempts
                /\ words'[w].totalCorrect = words[w].totalCorrect
                /\ words'[w].totalWrong = words[w].totalWrong
    ]_vars

\* word 1 was answered once correctly and once not, then muted, and the
\* session was completed
C17_Witness ==
  /\ sessionCompleted
  /\ words[1].isMuted
  /\ words[1].totalCorrect = PairWords[1].totalCorrect + 1
  /\ words[1].totalWrong = PairWords[1].totalWrong + 1
  /\ words[1].totalAttempts = PairWords[1].totalAttempts + 2

\* C18: no answer record is both correct and a near match; a step that logs
\* a near match (the answer equals the word only once diacritics are
\* stripped) records it as not correct, adds one to the word's totalWrong,
\* and leaves every queue entry of that word with a streak of 0.
C18_NearMatchIsWrong ==
  [][ /\ \A i \in 1..Len(answerLog) :
           ~(answerLog[i].isCorrect /\ answerLog[i].isNearMatch)
      /\ answerLogged /\ lastRecord(currentSession'.wordResults).isNearMatch =>
           LET record == lastRecord(currentSession'.wordResults)
           IN /\ ~record.isCorrect
              /\ words'[record.wordId].totalWrong = words[record.wordId].totalWrong + 1
              /\ \A i \in 1..Len(sessionQueue') :
                   sessionQueue'[i].wordId = record.wordId =>
                     sessionQueue'[i].sessionCorrectStreak = 0
    ]_vars

\* the positions of the words getDueWords is to return: not muted, and next
\* due on the calendar day of asOf or before it
duePositions(ws, asOf) ==
  {i \in 1..Len(ws) :
     ~ws[i].isMuted /\ dateString(ws[i].nextReviewDate) <= dateString(asOf)}

\* C19: getDueWords returns each input word that is not muted and whose
\* nextReviewDate falls on the calendar day of asOf or an earlier one, once
\* and unchanged, and no other word; the result is in ascending order of
\* level, and words of one level are in their input order.  The result is
\* thereby a function of the input list and asOf alone.
C19_DueWords ==
  engine.phase = "selected" =>
    LET ws == engine.words
        due == engine.due
        positions == duePositions(ws, engine.asOf)
    IN /\ Len(due) = Cardinality(positions)
       /\ {due[k].id : k \in 1..Len(due)} = positions
       /\ \A k \in 1..Len(due) : due[k] = ws[due[k].id]
       /\ \A k, m \in 1..Len(due) :
            k < m => \/ due[k].level < due[m].level
                     \/ due[k].level = due[m].level /\ due[k].id < due[m].id

\* asked in the first hour of the day: a word due in the last hour of the
\* same day is returned, behind a word of a lower level that follows it in
\* the input; a muted word is left out
C19_Witness ==
  /\ engine.phase = "selected"
  /\ engine.asOf = instant(StartDay, 0)
  /\ Len(engine.words) = 3
  /\ \E i \in 1..3 : engine.words[i].isMuted
  /\ Len(engine.due) = 2
  /\ engine.due[1].id > engine.due[2].id
  /\ engine.due[2].nextReviewDate = instant(StartDay, TicksPerDay - 1)

\* C20: every word's level is an integer in 0..8 in every state the store
\* reaches; on 0..8, advanceLevel(l) is the smaller of l + 1 and 8 and
\* dropLevel(l) is the larger of l - 2 and 0, so that advanceLevel(8) = 8,
\* dropLevel(0) = 0, dropLevel(1) = 0, dropLevel(3) = 1, advanceLevel(3) = 4.
C20_LevelsInRange ==
  /\ \A w \in DOMAIN words : words[w].level \in 0..8
  /\ \A l \in 0..8 :
       /\ advanceLevel(l) = (IF l + 1 < 8 THEN l + 1 ELSE 8)
       /\ dropLevel(l) = (IF l - 2 > 0 THEN l - 2 ELSE 0)
  /\ advanceLevel(8) = 8 /\ advanceLevel(3) = 4
  /\ dropLevel(0) = 0 /\ dropLevel(1) = 0 /\ dropLevel(3) = 1

\* a session was completed in which the new word, at level 0, got its first
\* answer and got it wrong: the word is still at level 0
C20_Witness ==
  /\ sessionCompleted
  /\ \E i \in 1..Len(answerLog) : answerLog[i].wordId = 1 /\ ~answerLog[i].isCorrect
  /\ words[1].totalAttempts = 1
  /\ words[1].totalWrong = 1
  /\ words[1].level = 0

\* the days the table gives levels 0 to 7
tableDays == <<0, 1, 3, 7, 14, 30, 60, 120>>

\* C21: calculateNextReviewDate(L, d) is d plus 0, 1, 3, 7, 14, 30, 60, 120
\* days for L = 0..7 and d plus ten years for L = 8; a word given the
\* level-8 date is due at no hour of the day of d nor of any later day short
\* of the ten years.
C21_FixedIntervals ==
  engine.phase = "scheduled" =>
    /\ engine.level <= 7 =>
         engine.next = engine.fromDate + tableDays[engine.level + 1] * TicksPerDay
    /\ engine.level = 8 =>
         /\ engine.next = engine.fromDate + TenYears * TicksPerDay
         /\ \A k \in 0..(TenYears - 1), hour \in 0..(TicksPerDay - 1) :
              ~isWordDue([nextReviewDate |-> engine.next],
                         instant(dateString(engine.fromDate) + k, hour))

\* level 8 scheduled from the last hour of a day: ten years later, and due
\* on that day
C21_Witness ==
  /\ engine.phase = "scheduled"
  /\ engine.level = 8
  /\ engine.fromDate = instant(StartDay, TicksPerDay - 1)
  /\ engine.next = addDays(engine.fromDate, TenYears)
  /\ isWordDue([nextReviewDate |-> engine.next],
               instant(StartDay + TenYears, 0))

\* the entries of queue whose word, among ws, is new (isNew) or not
entriesOf(queue, ws, isNew) ==
  SelectSeq(queue, LAMBDA e : (ws[e.wordId].totalAttempts = 0) = isNew)

\* the words of ws that are new (isNew) or not, as entries with streak 0
freshEntries(ws, isNew) ==
  LET part == SelectSeq(ws, LAMBDA w : (w.totalAttempts = 0) = isNew)
  IN [i \in 1..Len(part) |-> QueueEntry(part[i].id, 0)]

\* C22: the queue buildInitialQueue returns holds the first min(sessionGoal,
\* n) of the n candidates, each once and with streak 0; its new entries are
\* in candidate order and its review entries are in candidate order, so that
\* what is left of one partition when the other runs out follows in order.
C22_InitialQueue ==
  engine.phase = "built" =>
    LET queue == engine.queue
        n == Len(engine.words)
        count == IF engine.sessionGoal < n THEN engine.sessionGoal ELSE n
        first == SubSeq(engine.words, 1, count)
    IN /\ Len(queue) = count
       /\ {queue[i].wordId : i \in 1..Len(queue)} = {first[i].id : i \in 1..count}
       /\ \A i \in 1..Len(queue) : queue[i].sessionCorrectStreak = 0
       /\ entriesOf(queue, engine.words, TRUE) = freshEntries(first, TRUE)
       /\ entriesOf(queue, engine.words, FALSE) = freshEntries(first, FALSE)

\* five candidates cut to a goal of three, with a review entry ahead of a new
\* one among the candidates and behind it in the queue
C22_Witness ==
  /\ engine.phase = "built"
  /\ Len(engine.words) = 5
  /\ engine.sessionGoal = 3
  /\ Len(engine.queue) = 3
  /\ engine.words[1].totalAttempts > 0
  /\ engine.words[2].totalAttempts = 0
  /\ engine.queue[1].wordId = 2
  /\ engine.queue[2].wordId = 1

\* the ids of the words of group g that are not muted
groupCandidates(g) ==
  {w \in DOMAIN words : words[w].groupId = g /\ ~words[w].isMuted}

\* those of them next due on the calendar day of the clock or before it
groupDue(g) ==
  {w \in groupCandidates(g) :
     dateString(words[w].nextReviewDate) <= dateString(clock)}

\* C23: a startDrillSession call for a group that is there and unlocked
\* stores the queue built from the group's due words that are not muted or,
\* when none is due, from all its words that are not muted, in ascending
\* order of level either way, and a session of that group with an empty
\* answer log, no completion date and an empty mastered list; a call for a
\* group that is missing or locked sets the error and leaves the current
\* session, the queue and the mastered list as they were.
C23_StartDrillSession ==
  [][ \A g \in StartIds :
        startDrillSession(g) =>
          LET pool == IF groupDue(g) # {} THEN groupDue(g) ELSE groupCandidates(g)
              selected == sortByLevel(SelectSeq(WordList(words), LAMBDA w : w.id \in pool))
          IN IF \E i \in 1..Len(groups) : groups[i].id = g /\ groups[i].isUnlocked
             THEN /\ sessionQueue' = buildInitialQueue(selected, appState.sessionGoal)
                  /\ queueIds(sessionQueue') = pool
                  /\ \A i \in 1..Len(sessionQueue') :
                       sessionQueue'[i].sessionCorrectStreak = 0
                  /\ sessionTotalWords' = Len(sessionQueue')
                  /\ currentSession' # NoSession
                  /\ currentSession'.groupId = g
                  /\ currentSession'.wordResults = <<>>
                  /\ currentSession'.completedAt = NullDate
                  /\ currentSession'.startedAt = clock
                  /\ sessionMasteredIds' = <<>>
             ELSE /\ error' = "Group not found or locked"
                  /\ UNCHANGED <<currentSession, sessionQueue, sessionMasteredIds,
                                 sessionTotalWords, nextSessionId>>
    ]_vars

\* a session of group 2, unlocked, none of whose words is due: the queue is
\* its two words that are not muted, the lower level first, against their
\* order in the store
C23_Witness ==
  /\ sessionActive
  /\ currentSession.groupId = 2
  /\ groupDue(2) = {}
  /\ Len(sessionQueue) = 2
  /\ sessionQueue[1].wordId > sessionQueue[2].wordId
  /\ \E w \in DOMAIN words : words[w].groupId = 2 /\ words[w].isMuted

\* completeSession has nothing to complete: no current session, or a current
\* session whose group is not among the groups
cannotComplete ==
  \/ currentSession = NoSession
  \/ \A i \in 1..Len(groups) : groups[i].id # currentSession.groupId

\* a step shows one of the effects of a completion: a level or a review date
\* of a word, a group, the list of sessions, the streak or lastSessionDate
\* differs, or the current session gets another completedAt
completionEffectSeen ==
  \/ \E w \in DOMAIN words :
       \/ words'[w].level # words[w].level
       \/ words'[w].nextReviewDate # words[w].nextReviewDate
  \/ groups' # groups
  \/ sessions' # sessions
  \/ appState'.dailyStreak # appState.dailyStreak
  \/ appState'.lastSessionDate # appState.lastSessionDate
  \/ /\ currentSession # NoSession /\ currentSession' # NoSession
     /\ currentSession'.id = currentSession.id
     /\ currentSession'.completedAt # currentSession.completedAt

\* a step carries a whole completion: the session is stamped and stored, its
\* group counts it, the streak and lastSessionDate are those of today, and
\* every word has the level the session earned it
wholeCompletion ==
  /\ currentSession # NoSession
  /\ currentSession' = [currentSession EXCEPT !.completedAt = clock,
                                              !.accuracy = currentSession'.accuracy]
  /\ sessions' = Append(sessions, currentSession')
  /\ Len(groups') = Len(groups)
  /\ \A i \in 1..Len(groups) :
       groups[i].id = currentSession.groupId =>
         groups'[i].completedSessions = groups[i].completedSessions + 1
  /\ appState'.lastSessionDate = dateString(clock)
  /\ appState'.dailyStreak =
       nextDailyStreak(appState.lastSessionDate, appState.dailyStreak, dateString(clock))
  /\ \A w \in DOMAIN words :
       words'[w].level =
         IF w \notin {answerLog[i].wordId : i \in 1..Len(answerLog)} THEN words[w].level
         ELSE sessionLevel(words[w], Range(sessionMasteredIds),
                           {answerLog[i].wordId :
                              i \in {j \in 1..Len(answerLog) : ~answerLog[j].isCorrect}})

\* C24: a completeSession call that cannot finish (no current session, or the
\* group of the session is not found) leaves words, groups, sessions, the
\* streak, lastSessionDate and the current session as they were; any other
\* completeSession call carries a whole completion; and no step of the store
\* shows an effect of a completion without carrying a whole one.
C24_AllOrNothing ==
  [][ /\ completeSession =>
           IF cannotComplete
           THEN UNCHANGED <<words, groups, sessions, appState, currentSession>>
           ELSE wholeCompletion
      /\ completionEffectSeen => wholeCompletion
    ]_vars

\* the session begun before the import was sent to completeSession and is
\* still there, not completed, with its log, and nothing was stored
C24_Witness ==
  /\ engine = [phase |-> "store", last |-> "completeSession"]
  /\ sessionActive
  /\ currentSession.groupId = ReplacedGroupId
  /\ Len(answerLog) = 2
  /\ words = ImportedWords
  /\ groups = ImportedGroups
  /\ sessions = InitSessions

\* C25: the accuracy stored on a session completed in this run is the integer
\* nearest to 100 * correct / total over the session's answer log, a half
\* going up, and 0 when the log is empty; it lies in 0..100.
C25_SessionAccuracy ==
  \A i \in 1..Len(sessions) :
    sessions[i].id > LoadedSessions =>
      LET log == sessions[i].wordResults
          total == Len(log)
          correct == Len(SelectSeq(log, LAMBDA r : r.isCorrect))
          accuracy == sessions[i].accuracy
      IN /\ accuracy \in 0..100
         /\ total = 0 => accuracy = 0
         /\ total > 0 =>
              /\ 2 * accuracy * total <= 200 * correct + total
              /\ 200 * correct + total < 2 * (accuracy + 1) * total

\* C26: a clearSession call on a session that is not completed leaves every
\* word as the submitAnswer calls of the session left it (counters, level
\* and nextReviewDate), and leaves the groups, the stored sessions, the
\* streak and lastSessionDate as they were; the session and its queue are
\* gone.
C26_ClearKeepsCounters ==
  [][ sessionActive /\ currentSession' = NoSession =>
        /\ words' = words
        /\ groups' = groups
        /\ sessions' = sessions
        /\ appState' = appState
        /\ sessionQueue' = <<>>
        /\ sessionMasteredIds' = <<>>
    ]_vars

\* no session is left and none was stored, while word 1 keeps the two
\* answers, one of them wrong, it was given in the discarded session, at the
\* level and the review date it had
C26_Witness ==
  /\ currentSession = NoSession
  /\ completions = <<>>
  /\ words[1].totalAttempts = PairWords[1].totalAttempts + 2
  /\ words[1].totalWrong = PairWords[1].totalWrong + 1
  /\ words[1].level = PairWords[1].level
  /\ words[1].nextReviewDate = PairWords[1].nextReviewDate
  /\ groups = InitGroups(PairWords)

-----------------------------------------------------------------------------
(* SpecCard: the drill page. DrillCard is mounted while the store holds a   *)
(* session that is not completed; its handlers call the store, and its     *)
(* timers run after them. engine holds the state of the component: whether *)
(* it is mounted, whether the feedback of a correct answer is showing,     *)
(* which timers are pending, and whether handleMuteWord stands between its *)
(* muteWord and its completeSession.                                       *)

MaxCardAnswers == 5

CardAnswers == { <<"a'">>, <<"x">>, <<" ">> }

\* the state of a DrillCard that is not on the page
NoCard ==
  [phase |-> "card", mounted |-> FALSE, showFeedback |-> FALSE,
   feedbackTimer |-> FALSE, completionTimer |-> FALSE, completing |-> FALSE]

InitCard ==
  /\ StoreInit(NarrowWords)
  /\ strays = 0
  /\ engine = NoCard

\* DrillPage renders DrillCard for a session that is not completed
cardShown(session) == session # NoSession /\ session.completedAt = NullDate

\* the effect cleanup of DrillCard: the feedback timer is cleared, the state
\* of the component is gone; the timer that calls completeSession is held in
\* no ref and stays
cleanedUp(card) ==
  [card EXCEPT !.mounted = FALSE, !.showFeedback = FALSE, !.feedbackTimer = FALSE]

\* the page after a call of completeSession: a completed session replaces
\* DrillCard by the completion screen
rendered(card, session) == IF cardShown(session) THEN card ELSE cleanedUp(card)

\* getCurrentWord
getCurrentWord ==
  IF sessionQueue = <<>> \/ Head(sessionQueue).wordId \notin DOMAIN words
  THEN <<>>
  ELSE <<words[Head(sessionQueue).wordId]>>

\* handleStartDrill of the dashboard: startDrillSession, then the drill page
handleStartDrill(groupId) ==
  /\ ~engine.mounted
  /\ ~engine.completing
  /\ startDrillSession(groupId)
  /\ engine' = [engine EXCEPT !.mounted = cardShown(currentSession')]
  /\ UNCHANGED strays

\* handleSubmit of DrillCard
handleSubmit(answer, u) ==
  /\ engine.mounted
  /\ ~engine.completing
  /\ getCurrentWord # <<>>
  /\ trim(answer) # <<>>
  /\ ~engine.showFeedback
  /\ LET currentWord == getCurrentWord[1]
         correct == toLowerCase(trim(answer)) = toLowerCase(currentWord.portuguese)
     IN /\ submitAnswer(currentWord.id, trim(answer), u)
        /\ engine' = IF correct
                     THEN [engine EXCEPT !.showFeedback = TRUE,
                                         !.feedbackTimer = TRUE]
                     ELSE engine
  /\ UNCHANGED strays

\* the timer handleSubmit sets after a correct answer, 1500 ms later
feedbackTimerFires ==
  /\ engine.feedbackTimer
  /\ ~engine.completing
  /\ engine' = [engine EXCEPT !.showFeedback = FALSE,
                              !.feedbackTimer = FALSE,
                              !.completionTimer =
                                 IF Len(sessionQueue) = 0 THEN TRUE ELSE @]
  /\ UNCHANGED <<storeVars, strays>>

\* the timer the feedback timer sets on an empty queue, 300 ms later
completionTimerFires ==
  /\ engine.completionTimer
  /\ ~engine.completing
  /\ completeSession
  /\ engine' = rendered([engine EXCEPT !.completionTimer = FALSE], currentSession')
  /\ UNCHANGED strays

\* handleMuteWord of DrillCard, up to its reading of the queue
handleMuteWord ==
  /\ engine.mounted
  /\ ~engine.completing
  /\ ~engine.showFeedback
  /\ getCurrentWord # <<>>
  /\ muteWord(getCurrentWord[1].id)
  /\ engine' = [engine EXCEPT !.completing = Len(sessionQueue') = 0]
  /\ UNCHANGED strays

\* handleMuteWord on an empty queue: completeSession, in the same task
muteCompletes ==
  /\ engine.completing
  /\ completeSession
  /\ engine' = rendered([engine EXCEPT !.completing = FALSE], currentSession')
  /\ UNCHANGED strays

\* the learner leaves the drill page
unmount ==
  /\ engine.mounted
  /\ ~engine.completing
  /\ engine' = cleanedUp(engine)
  /\ UNCHANGED <<storeVars, strays>>

\* the learner comes back to the drill page
mount ==
  /\ ~engine.mounted
  /\ ~engine.completing
  /\ cardShown(currentSession)
  /\ engine' = [engine EXCEPT !.mounted = TRUE]
  /\ UNCHANGED <<storeVars, strays>>

NextCard ==
  \/ /\ nextSessionId < SessionIdCap
     /\ \E g \in GroupIds : handleStartDrill(g)
  \/ /\ currentSession # NoSession
     /\ Len(currentSession.wordResults) < MaxCardAnswers
     /\ \E a \in CardAnswers, u \in RandomUnit : handleSubmit(a, u)
  \/ feedbackTimerFires
  \/ completionTimerFires
  \/ handleMuteWord
  \/ muteCompletes
  \/ unmount
  \/ mount

SpecCard == InitCard /\ [][NextCard]_vars

\* the timers of the browser fire, and a handler that has begun runs to its
\* end
SpecCardFair ==
  /\ SpecCard
  /\ WF_vars(feedbackTimerFires)
  /\ WF_vars(completionTimerFires)
  /\ WF_vars(muteCompletes)

-----------------------------------------------------------------------------
\* C27: once the queue of an active session has become empty, by the
\* mastering or the muting of its last word, completeSession is eventually
\* called and the session is completed - the timers of the browser being
\* fair.
C27_EventuallyCompleted ==
  (sessionActive /\ sessionQueue = <<>>) ~> sessionCompleted

-----------------------------------------------------------------------------
(* SpecSync: the store and the rows of Supabase. Each action that reaches  *)
(* its writes sends them without awaiting them; a write in flight lands or *)
(* is rejected at any later time, in any order. engine holds the writes in *)
(* flight, the rows of user_progress, groups and drill_sessions, and       *)
(* whether a write was rejected.                                           *)

MaxSyncAnswers == 5
MaxSyncCompletions == 1

SyncAnswers == { <<"a'">>, <<"x">> }

\* the row upsertWordProgress builds from a word
progressRow(word) ==
  [level |-> word.level, nextReviewDate |-> word.nextReviewDate,
   lastReviewDate |-> word.lastReviewDate,
   totalAttempts |-> word.totalAttempts, totalCorrect |-> word.totalCorrect,
   totalWrong |-> word.totalWrong, isMuted |-> word.isMuted,
   hasBeenMastered |-> word.level >= 6]

\* the columns updateGroup sets
groupRow(group) ==
  [isUnlocked |-> group.isUnlocked,
   completedSessions |-> group.completedSessions, accuracy |-> group.accuracy]

\* the row insertDrillSession builds
sessionRow(session, correctCount) ==
  [groupId |-> session.groupId, startedAt |-> session.startedAt,
   completedAt |-> session.completedAt, accuracy |-> session.accuracy,
   totalAnswers |-> Len(session.wordResults), correctAnswers |-> correctCount]

Write(table, key, row) == [table |-> table, key |-> key, row |-> row]

\* the rows loadFromSupabase built the store from
InitSync ==
  /\ StoreInit(NarrowWords)
  /\ strays = 0
  /\ engine = [phase |-> "sync", inFlight |-> {},
               progress |-> [w \in DOMAIN NarrowWords |-> progressRow(NarrowWords[w])],
               groupRows |-> [i \in 1..Len(InitGroups(NarrowWords)) |->
                                groupRow(InitGroups(NarrowWords)[i])],
               sessionRows |-> {},
               rejected |-> FALSE]

sent(writes) == engine' = [engine EXCEPT !.inFlight = @ \cup writes]

\* the word submitAnswer hands to upsertWordProgress, of the word as it was
\* before set() and as it is after
issuedWordBeforeCommit(before, after) == before

issuedWord(before, after) == after

\* submitAnswer with its write (line 936), which the early returns and a
\* throwing processAnswer do not reach
syncSubmitAnswer(wordId, answer, u) ==
  /\ submitAnswer(wordId, answer, u)
  /\ sent(IF currentSession' # currentSession
          THEN {Write("user_progress", wordId,
                      progressRow(issuedWord(words[wordId], words'[wordId])))}
          ELSE {})
  /\ UNCHANGED strays

\* completeSession with its writes (lines 1058-1076), which the early
\* returns do not reach
syncCompleteSession ==
  /\ completeSession
  /\ sent(IF currentSession' # currentSession
          THEN LET results == currentSession.wordResults
                   sessionWordIds == {results[i].wordId : i \in 1..Len(results)}
                   correctAnswers == Len(SelectSeq(results, LAMBDA r : r.isCorrect))
               IN {Write("drill_sessions", currentSession'.id,
                         sessionRow(currentSession', correctAnswers))}
                  \cup {Write("user_progress", w, progressRow(words'[w])) :
                          w \in sessionWordIds \cap DOMAIN words}
                  \cup {Write("groups", i, groupRow(groups'[i])) :
                          i \in {j \in 1..Len(groups) :
                                   groupRow(groups[j]) # groupRow(groups'[j])}}
          ELSE {})
  /\ UNCHANGED strays

\* Supabase carries out a write in flight
writeLands(w) ==
  /\ w \in engine.inFlight
  /\ engine' =
       [engine EXCEPT
          !.inFlight = @ \ {w},
          !.progress = IF w.table = "user_progress"
                       THEN [@ EXCEPT ![w.key] = w.row] ELSE @,
          !.groupRows = IF w.table = "groups"
                        THEN [@ EXCEPT ![w.key] = w.row] ELSE @,
          !.sessionRows = IF w.table = "drill_sessions"
                          THEN @ \cup {[id |-> w.key, row |-> w.row]} ELSE @]
  /\ UNCHANGED <<storeVars, strays>>

\* a write in flight fails: the error is logged, nothing else happens
writeRejected(w) ==
  /\ w \in engine.inFlight
  /\ engine' = [engine EXCEPT !.inFlight = @ \ {w}, !.rejected = TRUE]
  /\ UNCHANGED <<storeVars, strays>>

NextSync ==
  \/ /\ nextSessionId < SessionIdCap
     /\ \E g \in GroupIds : startDrillSession(g)
     /\ UNCHANGED <<strays, engine>>
  \/ /\ currentSession # NoSession
     /\ Len(currentSession.wordResults) < MaxSyncAnswers
     /\ \E a \in SyncAnswers, u \in RandomUnit :
          /\ sessionQueue # <<>>
          /\ syncSubmitAnswer(Head(sessionQueue).wordId, a, u)
  \/ /\ Len(SelectSeq(sessions, LAMBDA s : s.id > LoadedSessions)) < MaxSyncCompletions
     /\ sessionQueue = <<>>
     /\ syncCompleteSession
  \/ /\ clearSession
     /\ UNCHANGED <<strays, engine>>
  \/ \E w \in engine.inFlight : writeLands(w)
  \/ \E w \in engine.inFlight : writeRejected(w)

SpecSync == InitSync /\ [][NextSync]_vars

-----------------------------------------------------------------------------
\* the writes a step sends
sentNow == engine'.inFlight \ engine.inFlight

\* whether a step settles a write in flight, by its landing or its rejection
settles == engine'.inFlight # engine.inFlight /\ engine'.inFlight \subseteq engine.inFlight

\* C28: a write is sent only by a step that has committed a change of the
\* store, and it carries the state that step committed: the word, the group
\* or the completed session as the store holds it after the step. A write
\* that lands or is rejected changes nothing of the store: the words, the
\* groups, the sessions and the queue stay as they are.
C28_PersistAfterCommit ==
  [][ /\ \A w \in sentNow :
           /\ storeVars' # storeVars
           /\ w.table = "user_progress" => w.row = progressRow(words'[w.key])
           /\ w.table = "groups" => w.row = groupRow(groups'[w.key])
           /\ w.table = "drill_sessions" =>
                /\ currentSession'.id = w.key
                /\ sessions'[Len(sessions')] = currentSession'
                /\ w.row.completedAt = currentSession'.completedAt
                /\ w.row.accuracy = currentSession'.accuracy
      /\ settles => UNCHANGED storeVars ]_vars

\* every write of a session that was answered and completed was rejected:
\* the store keeps the answers and the new level, Supabase the rows as loaded
C28_Witness ==
  /\ engine.rejected
  /\ engine.inFlight = {}
  /\ engine.sessionRows = {}
  /\ sessionCompleted
  /\ words[1].level # NarrowWords[1].level
  /\ engine.progress[1] = progressRow(NarrowWords[1])

-----------------------------------------------------------------------------
\* the level, the next review date and the counters of a row of user_progress
progressOf(row) ==
  <<row.level, row.nextReviewDate, row.totalAttempts, row.totalCorrect,
    row.totalWrong>>

\* C29: in whatever order the writes of submitAnswer and completeSession for
\* a word are carried out, once no write is in flight - none having been
\* rejected - the row of the word in user_progress holds the level, the next
\* review date and the counters the word has in the store.
C29_PersistedEqualsMemory ==
  (engine.inFlight = {} /\ ~engine.rejected) =>
     \A w \in DOMAIN words :
        progressOf(engine.progress[w]) = progressOf(progressRow(words[w]))

-----------------------------------------------------------------------------
\* whether a step leaves the level and the next review date of every word
levelsAndDatesKept ==
  /\ DOMAIN words' = DOMAIN words
  /\ \A w \in DOMAIN words :
        /\ words'[w].level = words[w].level
        /\ words'[w].nextReviewDate = words[w].nextReviewDate

\* C30: while a session is active, a step that does not complete it - an
\* answer, a skip, a muting, a clearSession, the passing of a day - leaves
\* the level and the next review date of every word; the step that
\* completes it leaves each word the session log holds no answer for as it
\* was, in every field.
C30_OnlyCompletionMovesLevels ==
  [][ sessionActive =>
        IF sessionCompleted'
        THEN \A w \in DOMAIN words \ touchedWords : words'[w] = words[w]
        ELSE levelsAndDatesKept ]_vars

\* a session of two words was completed after a wrong answer to word 1 and
\* the muting of word 2: the level and the review date of word 1 are those
\* the completion gave it, word 2 has its level and date and is muted
C30_Witness ==
  /\ sessionCompleted
  /\ touchedWords = {1}
  /\ words[1].level = dropLevel(PairWords[1].level)
  /\ words[1].nextReviewDate # PairWords[1].nextReviewDate
  /\ words[2] = [PairWords[2] EXCEPT !.isMuted = TRUE]

-----------------------------------------------------------------------------
\* the word ids of the mastered list
masteredIds == Range(sessionMasteredIds)

\* whether the mastered list holds no id twice
noDuplicateMastered == Cardinality(masteredIds) = Len(sessionMasteredIds)

\* C31 (as claimed): while a session is active the mastered list holds no
\* word id twice and no word id of the queue, and a step that appends a word
\* id to the mastered list finds that word at the head of the queue with
\* streak 3.
C31_MasteredList ==
  [][ sessionActive' =>
        /\ noDuplicateMastered'
        /\ masteredIds' \cap queueIds(sessionQueue') = {}
        /\ (sessionActive /\ Len(sessionMasteredIds') > Len(sessionMasteredIds)) =>
              /\ sessionQueue # <<>>
              /\ Head(sessionQueue).wordId = lastRecord(sessionMasteredIds')
              /\ Head(sessionQueue).sessionCorrectStreak = MasteryStreak - 1
    ]_vars

-----------------------------------------------------------------------------
(* SpecMastery: one session on a group of one to MaxMasteryWords due      *)
(* words, every answer submitted for the word at the head of the queue,    *)
(* at most MaxMasteryWrongs of the answers wrong.                          *)

MaxMasteryWords == 7
MaxMasteryWrongs == 1

MasteryAnswers == { <<"a'">>, <<"x">> }

\* n due words of group 1, at level 2
MasteryWords(n) ==
  [i \in 1..n |->
     Word(i, 1, 2, instant(StartDay - 3, 1), instant(StartDay, 1), 5, 4, "learning")]

InitMastery ==
  /\ \E n \in 1..MaxMasteryWords : StoreInit(MasteryWords(n))
  /\ strays = 0
  /\ engine = IdleEngine

\* the wrong answers of the answer log
wrongAnswers ==
  IF currentSession = NoSession THEN 0
  ELSE Len(SelectSeq(currentSession.wordResults, LAMBDA r : ~r.isCorrect))

NextMastery ==
  \/ /\ currentSession = NoSession
     /\ startDrillSession(1)
     /\ UNCHANGED <<strays, engine>>
  \/ /\ sessionQueue # <<>>
     /\ \E a \in MasteryAnswers, u \in RandomUnit :
          /\ a # words[Head(sessionQueue).wordId].portuguese =>
               wrongAnswers < MaxMasteryWrongs
          /\ submitAnswer(Head(sessionQueue).wordId, a, u)
     /\ UNCHANGED <<strays, engine>>

SpecMastery == InitMastery /\ [][NextMastery]_vars

-----------------------------------------------------------------------------
\* C32: in a session whose answers are all correct and for the head word,
\* the queue is empty exactly when the log holds four answers for each entry
\* of the initial queue, and every word of the initial queue is then in the
\* mastered list; whatever the answers, a submitAnswer step never lengthens
\* the queue, and it shortens the queue, by one entry, exactly when it
\* appends to the mastered list.
C32_FourAnswersPerWord ==
  [][ sessionActive /\ answerLogged =>
        /\ Len(sessionQueue') <= Len(sessionQueue)
        /\ IF Len(sessionMasteredIds') > Len(sessionMasteredIds)
           THEN Len(sessionQueue') = Len(sessionQueue) - 1
           ELSE Len(sessionQueue') = Len(sessionQueue)
        /\ wrongAnswers' = 0 =>
             /\ Len(currentSession'.wordResults) <= MasteryStreak * sessionTotalWords
             /\ sessionQueue' = <<>> <=>
                  Len(currentSession'.wordResults) = MasteryStreak * sessionTotalWords
             /\ sessionQueue' = <<>> =>
                  /\ Len(sessionMasteredIds') = sessionTotalWords
                  /\ Range(sessionMasteredIds') = DOMAIN words
    ]_vars

\* a session of seven words ended on its twenty-eighth answer, all of them
\* correct, the words mastered in another order than the queue began with
C32_Witness ==
  /\ sessionActive
  /\ sessionTotalWords = 7
  /\ sessionQueue = <<>>
  /\ wrongAnswers = 0
  /\ Len(currentSession.wordResults) = 28
  /\ Range(sessionMasteredIds) = 1..7
  /\ sessionMasteredIds # <<1, 2, 3, 4, 5, 6, 7>>

-----------------------------------------------------------------------------
(* SpecMute: sessions on a group of three due words, any of them muted     *)
(* when the store is loaded, with answers for the head word, skips and     *)
(* muteWord calls for any word.                                            *)

MaxMuteAnswers == 2
MaxMuteStarts == 2

MuteAnswers == { <<"a'">>, <<"x">> }

\* three due words of group 1, those of muted being muted
MuteWords(muted) ==
  [i \in 1..3 |->
     [Word(i, 1, 2, instant(StartDay - 3, 1), instant(StartDay, 1), 5, 4, "learning")
        EXCEPT !.isMuted = i \in muted]]

InitMute ==
  /\ \E muted \in SUBSET (1..3) : StoreInit(MuteWords(muted))
  /\ strays = 0
  /\ engine = IdleEngine

NextMute ==
  \/ /\ nextSessionId < LoadedSessions + 1 + MaxMuteStarts
     /\ startDrillSession(1)
     /\ UNCHANGED <<strays, engine>>
  \/ /\ sessionQueue # <<>>
     /\ Len(currentSession.wordResults) < MaxMuteAnswers
     /\ \E a \in MuteAnswers, u \in RandomUnit :
          submitAnswer(Head(sessionQueue).wordId, a, u)
     /\ UNCHANGED <<strays, engine>>
  \/ /\ \E u \in RandomUnit : skipWord(u)
     /\ UNCHANGED <<strays, engine>>
  \/ /\ \E w \in DOMAIN words : muteWord(w)
     /\ UNCHANGED <<strays, engine>>

SpecMute == InitMute /\ [][NextMute]_vars

-----------------------------------------------------------------------------
\* the words a step mutes
mutedNow == {w \in DOMAIN words : ~words[w].isMuted /\ words'[w].isMuted}

\* C33: after every step no entry of the queue is for a muted word - a
\* session starts on words that are not muted - and a step that mutes a word
\* takes the entry of that word out of the queue, leaves the other entries
\* in their order with their streaks, and leaves the mastered list.
C33_NoMutedInQueue ==
  [][ /\ \A i \in 1..Len(sessionQueue') :
           ~words'[sessionQueue'[i].wordId].isMuted
      /\ \A w \in mutedNow :
           /\ sessionQueue' = SelectSeq(sessionQueue, LAMBDA e : e.wordId # w)
           /\ sessionMasteredIds' = sessionMasteredIds
    ]_vars

\* word 1 was answered and word 2 muted in a first session, and the second
\* session is on words 1 and 3 alone
C33_Witness ==
  /\ sessionActive
  /\ currentSession.id = LoadedSessions + 2
  /\ words[2].isMuted
  /\ ~words[1].isMuted
  /\ ~words[3].isMuted
  /\ queueIds(sessionQueue) = {1, 3}
  /\ sessionTotalWords = 2
  /\ words[1].totalAttempts > 5

-----------------------------------------------------------------------------
\* the streak the queue holds for a word it has an entry for
streakOf(queue, wordId) ==
  LET i == CHOOSE k \in 1..Len(queue) : queue[k].wordId = wordId
  IN queue[i].sessionCorrectStreak

\* C34: after every step each entry of the queue has a streak of 0, 1, 2 or
\* 3. A correct answer that finds the head entry at streak 3 takes the entry
\* out of the queue instead of putting it back with streak 4; an incorrect
\* answer and a skip leave the entry that was at the head with streak 0.
C34_StreakInRange ==
  [][ /\ \A i \in 1..Len(sessionQueue') :
           sessionQueue'[i].sessionCorrectStreak \in 0..(MasteryStreak - 1)
      /\ (sessionActive /\ sessionQueue # <<>> /\ answerLogged) =>
           IF lastRecord(currentSession'.wordResults).isCorrect
           THEN Head(sessionQueue).sessionCorrectStreak = MasteryStreak - 1 =>
                  /\ Head(sessionQueue).wordId \notin queueIds(sessionQueue')
                  /\ Len(sessionQueue') = Len(sessionQueue) - 1
           ELSE streakOf(sessionQueue', Head(sessionQueue).wordId) = 0
      /\ (sessionQueue # <<>> /\ \E u \in RandomUnit : skipWord(u)) =>
           streakOf(sessionQueue', Head(sessionQueue).wordId) = 0
    ]_vars

\* word 1 was answered wrongly once and then correctly four times in a row:
\* its entry went from streak 0 up to 3 and then out of the queue
C34_Witness ==
  /\ sessionActive
  /\ sessionQueue = <<>>
  /\ sessionMasteredIds = <<1>>
  /\ Len(answerLog) = 5
  /\ ~answerLog[1].isCorrect
  /\ \A i \in 2..5 : answerLog[i].isCorrect /\ answerLog[i].wordId = 1

-----------------------------------------------------------------------------
\* whether queue is rest with entry put in at index pos, counted from 0
putInAt(queue, rest, pos, entry) ==
  /\ Len(queue) = Len(rest) + 1
  /\ pos \in 0..Len(rest)
  /\ queue[pos + 1] = entry
  /\ \A i \in 1..Len(rest) : rest[i] = queue[IF i <= pos THEN i ELSE i + 1]

\* C35: a skipWord call on a queue that is not empty takes the head entry,
\* sets its streak to 0 and puts it back at index 2 or 3 of the queue - at
\* the end, when fewer entries remain - and leaves everything else of the
\* store: the words with their counters, the answer log, the mastered list;
\* on an empty queue it leaves the whole store.
C35_SkipWord ==
  [][ (\E u \in RandomUnit : skipWord(u)) =>
        IF sessionQueue = <<>> THEN UNCHANGED storeVars
        ELSE /\ \E pos \in {Min(2, Len(sessionQueue) - 1), Min(3, Len(sessionQueue) - 1)} :
                  putInAt(sessionQueue', Tail(sessionQueue), pos,
                          [Head(sessionQueue) EXCEPT !.sessionCorrectStreak = 0])
             /\ UNCHANGED <<words, groups, sessions, appState, currentSession,
                            sessionMasteredIds, sessionTotalWords, error, clock,
                            nextSessionId>>
    ]_vars

\* the one answer of the session was a correct one for the head word, and
\* the entry of that word, skipped since, stands with streak 0 at index 2 of
\* a queue of four
C35_Witness ==
  /\ sessionActive
  /\ strays = 0
  /\ Len(answerLog) = 1
  /\ answerLog[1].isCorrect
  /\ Len(sessionQueue) = 4
  /\ sessionQueue[3] = QueueEntry(answerLog[1].wordId, 0)
  /\ sessionMasteredIds = <<>>

-----------------------------------------------------------------------------
(* SpecUnlock: three groups of one word each, the first unlocked, the      *)
(* second locked or unlocked with one session completed, the third locked; *)
(* sessions are started, answered, skipped, muted and completed, and       *)
(* unlockNextGroup is called with the id of a group or of no group.        *)

MaxUnlockAnswers == 1
MaxUnlockStarts == 2
MaxUnlockCompletions == 2
MaxUnlockCalls == 1

UnlockAnswers == { <<"a'">>, <<"x">> }

\* one due word in each of the groups 1 and 2, a new word in group 3
UnlockWords ==
  [w \in 1..3 |->
     IF w = 3 THEN Word(3, 3, 0, NullDate, instant(StartDay - 8, 1), 0, 0, "new")
     ELSE Word(w, w, 2, instant(StartDay - 3, 1), instant(StartDay, 1), 5, 4,
               "learning")]

\* the groups fetchGroups returns, group 2 having been opened or not
UnlockGroups(opened) ==
  << [id |-> 1, isUnlocked |-> TRUE, completedSessions |-> LoadedSessions,
      accuracy |-> calculateAccuracy(4, 5)],
     [id |-> 2, isUnlocked |-> opened,
      completedSessions |-> IF opened THEN 1 ELSE 0,
      accuracy |-> IF opened THEN calculateAccuracy(4, 5) ELSE 0],
     [id |-> 3, isUnlocked |-> FALSE, completedSessions |-> 0, accuracy |-> 0] >>

\* the ids unlockNextGroup and startDrillSession are called with: the three
\* groups and no group
UnlockIds == 1..4

InitUnlock ==
  /\ words = UnlockWords
  /\ \E opened \in BOOLEAN : groups = UnlockGroups(opened)
  /\ sessions = InitSessions
  /\ appState = InitAppState(UnlockWords)
  /\ currentSession = NoSession
  /\ sessionQueue = <<>>
  /\ sessionMasteredIds = <<>>
  /\ sessionTotalWords = 0
  /\ error = NoError
  /\ clock = instant(StartDay, 0)
  /\ nextSessionId = LoadedSessions + 1
  /\ strays = 0
  /\ engine = [phase |-> "unlock", calls |-> 0]

NextUnlock ==
  \/ /\ nextSessionId < LoadedSessions + 1 + MaxUnlockStarts
     /\ \E g \in UnlockIds : startDrillSession(g)
     /\ UNCHANGED <<strays, engine>>
  \/ /\ sessionQueue # <<>>
     /\ Len(currentSession.wordResults) < MaxUnlockAnswers
     /\ \E a \in UnlockAnswers, u \in RandomUnit :
          submitAnswer(Head(sessionQueue).wordId, a, u)
     /\ UNCHANGED <<strays, engine>>
  \/ /\ \E u \in RandomUnit : skipWord(u)
     /\ UNCHANGED <<strays, engine>>
  \/ /\ mutedCount(words) < MaxMuted
     /\ \E w \in DOMAIN words : muteWord(w)
     /\ UNCHANGED <<strays, engine>>
  \/ /\ Len(SelectSeq(sessions, LAMBDA s : s.id > LoadedSessions)) < MaxUnlockCompletions
     /\ completeSession
     /\ UNCHANGED <<strays, engine>>
  \/ /\ engine.calls < MaxUnlockCalls
     /\ \E g \in UnlockIds : unlockNextGroup(g)
     /\ engine' = [engine EXCEPT !.calls = @ + 1]
     /\ UNCHANGED strays

SpecUnlock == InitUnlock /\ [][NextUnlock]_vars

-----------------------------------------------------------------------------
\* the places, in store.groups, of the groups a step unlocks
unlockedNow ==
  {i \in 1..Len(groups) : ~groups[i].isUnlocked /\ groups'[i].isUnlocked}

\* the place of the group of the current session
sessionGroupIndex ==
  CHOOSE i \in 1..Len(groups) : groups[i].id = currentSession.groupId

\* C36: no step of a drill - a start, an answer, a skip, a muting, a
\* completion, an unlockNextGroup call - locks a group that was unlocked,
\* and a completeSession step unlocks no group but the one that follows the
\* group of the session.
C36_UnlockMonotonic ==
  [][ /\ Len(groups') = Len(groups)
      /\ \A i \in 1..Len(groups) :
           /\ groups'[i].id = groups[i].id
           /\ groups[i].isUnlocked => groups'[i].isUnlocked
      /\ sessions' # sessions => unlockedNow \subseteq {sessionGroupIndex + 1}
    ]_vars

\* with no unlockNextGroup call made, group 2 was unlocked by a completed
\* session of group 1, stays unlocked after a session of group 1 that
\* brought the accuracy of the group under 80, and group 3 is locked
C36_Witness ==
  /\ engine.calls = 0
  /\ groups[1].completedSessions = LoadedSessions + 2
  /\ groups[1].accuracy < 80
  /\ groups[2].isUnlocked
  /\ groups[2].completedSessions = 0
  /\ ~groups[3].isUnlocked

=============================================================================
